---- MODULE Spec2Model ----
(***************************************************************************)
(* Billing and credit-reconciliation core of the resume builder backend:   *)
(* the credit ledger (services/credit.service.js), the subscription store  *)
(* (models/subscription.model.js), the transaction journal                 *)
(* (models/transaction.model.js) and the Stripe webhook / reconciliation   *)
(* service (services/payment.service.js, controllers/payment.controller.js)*)
(*                                                                         *)
(* Every request (an HTTP call or a webhook delivery) is a unit of work in *)
(* a slot of `procs`; it advances one data-store or processor call (one    *)
(* `await`) per step, so that concurrent requests interleave exactly at    *)
(* the points where the Node.js event loop can switch between them.        *)
(***************************************************************************)
EXTENDS Integers, Sequences, FiniteSets, TLC

\* ------------------------------------------------------------------ bounds

MaxProcs == 2        \* request slots (units of work in flight at once)
MaxLog == 3          \* ledger entries written in one behaviour
MaxTx == 3           \* journal entries written in one behaviour
MaxTime == 1         \* clock ticks (one tick is one billing period)
MaxInvoices == 2     \* invoices the processor issues in one behaviour
MaxBalance == 10     \* balance up to which a failing delivery is delivered again
MaxResumes == 2      \* resumes created in one behaviour

\* ------------------------------------------------------- program constants

SubscriptionMonthlyCredits == 50
SubscriptionYearlyCredits == 700
PurchasedCredits == 5

\* values the administrator may have configured (AppSettings)
InitialCreditsValues == {0, 2}
CreditCostValues == {3}

Users == {"user1", "admin1"}
Role(u) == IF u = "admin1" THEN "admin" ELSE "user"
Actions == {"resume_creation"}

Customers == {"user1"}

Procs == 1..MaxProcs

VARIABLES
    registered,     \* User collection: the users that exist
    credits,        \* User.credits of every user
    creditLog,      \* CreditLog collection, in creation order
    transactions,   \* Transaction collection, in creation order
    subscriptions,  \* Subscription collection
    resumes,        \* Resume collection
    settings,       \* AppSettings values read by the core
    now,            \* the clock (new Date())
    stripe,         \* the payment processor's own state
    events,         \* webhook events the processor has emitted
    limit,          \* how many requests the server handles at once
    procs           \* the requests in flight, one per slot

store == <<registered, credits, creditLog, transactions, subscriptions, resumes>>
world == <<settings, now, stripe, events>>
vars == <<registered, credits, creditLog, transactions, subscriptions, resumes,
          settings, now, stripe, events, limit, procs>>

\* ------------------------------------------------------------------ ledger

\* models/creditLog.model.js: balanceAfter is a Number or null; {} stands for null
\* metadata: the action key, the checkout session id of a credit purchase or the
\* invoice id (0: none)
LogEntry(u, type, n, bal, action, session, invoice) ==
    [userId |-> u, type |-> type, credits |-> n, balanceAfter |-> bal,
     action |-> action, session |-> session, invoice |-> invoice]

SignedDelta(e) == IF e.type = "usage" THEN 0 - e.credits ELSE e.credits

RECURSIVE SignedSum(_, _)
SignedSum(log, u) ==
    IF log = <<>> THEN 0
    ELSE (IF Head(log).userId = u THEN SignedDelta(Head(log)) ELSE 0)
         + SignedSum(Tail(log), u)

\* --------------------------------------------------------- documents, events

Plans == {"monthly", "yearly"}

\* the Stripe subscription object, as the API returns it (0 as id: none)
NoStripeSub == [id |-> "", status |-> "none", interval |-> "",
                current_period_start |-> 0, current_period_end |-> 0,
                cancel_at_period_end |-> FALSE]

\* a Subscription document
NoDoc == [userId |-> "", stripeSubscriptionId |-> "", plan |-> "", status |-> "",
          currentPeriodStart |-> 0, currentPeriodEnd |-> 0,
          cancelAtPeriodEnd |-> FALSE]

\* a payment at the processor: the payment intent, and the charge made for it, of
\* a paid checkout session (mode payment) or of a paid invoice
PaymentIntent(session, invoice) == [session |-> session, invoice |-> invoice]
NoPayment == PaymentIntent("", 0)

\* a Transaction document (0 as invoice id, "" as session id: not set)
Tx(u, session, sub, invoice, type, status, added, plan) ==
    [userId |-> u, stripeSessionId |-> session, stripeSubscriptionId |-> sub,
     stripeInvoiceId |-> invoice, type |-> type, status |-> status,
     creditsAdded |-> added, plan |-> plan,
     stripePaymentIntentId |-> NoPayment, chargeId |-> NoPayment]

\* Transaction.create with stripePaymentIntentId set
PaidBy(tx, pi) == [tx EXCEPT !.stripePaymentIntentId = pi]

\* transactionSchema.type enum
TransactionTypes == {"credit_purchase", "credit_usage", "subscription_payment",
                     "subscription_renewal", "refund"}

\* the checkout sessions of the model and their metadata, as
\* createCreditCheckoutSession and createSubscriptionCheckoutSession write it
Sessions == {"cs_credit", "cs_sub"}
SessionMeta(s) ==
    IF s = "cs_credit"
    THEN [type |-> "credit_purchase", userId |-> "user1",
          creditAmount |-> PurchasedCredits, plan |-> "", subscription |-> ""]
    ELSE [type |-> "subscription", userId |-> "user1",
          creditAmount |-> 0, plan |-> "monthly", subscription |-> "sub_1"]

\* a webhook event: event.type and the fields of event.data.object the handlers read
Event(type, session, invoice, reason, paid, sub) ==
    [type |-> type, session |-> session, invoice |-> invoice,
     billing_reason |-> reason, amount_paid |-> paid, sub |-> sub]

\* extractPeriodDates: the period bounds of a Stripe subscription
extractPeriodDates(stripeSub) ==
    [currentPeriodStart |-> stripeSub.current_period_start,
     currentPeriodEnd |-> stripeSub.current_period_end]

PlanOfInterval(interval) == IF interval = "year" THEN "yearly" ELSE "monthly"
IntervalOfPlan(plan) == IF plan = "yearly" THEN "year" ELSE "month"

\* creditLimitForPlan
creditLimitForPlan(plan) ==
    IF plan = "yearly" THEN SubscriptionYearlyCredits ELSE SubscriptionMonthlyCredits

\* ---------------------------------------------------------- subscription store

\* Subscription.findOne({ stripeSubscriptionId })
FindSubscription(id) ==
    IF \E d \in subscriptions : d.stripeSubscriptionId = id
    THEN CHOOSE d \in subscriptions : d.stripeSubscriptionId = id
    ELSE NoDoc

ActiveDocs(u) ==
    {d \in subscriptions : /\ d.userId = u
                           /\ d.status \in {"active", "trialing"}
                           /\ d.currentPeriodEnd > now}

\* mutant: the query filters by status only, not by the period end
getActiveForUserStatusOnly(u) ==
    LET docs == {d \in subscriptions : d.userId = u /\ d.status \in {"active", "trialing"}}
    IN IF docs # {} THEN CHOOSE d \in docs : TRUE ELSE NoDoc

\* Subscription.getActiveForUser
getActiveForUser(u) ==
    IF ActiveDocs(u) # {} THEN CHOOSE d \in ActiveDocs(u) : TRUE ELSE NoDoc

\* Subscription.isUserSubscribed
isUserSubscribed(u) == getActiveForUser(u) # NoDoc

\* the document of `doc` as it is stored now (save() writes the modified paths
\* of the document with doc's _id)
Stored(doc) == FindSubscription(doc.stripeSubscriptionId)

\* document.save(): writes the paths whose assigned value differs from the value
\* the document was loaded with, and leaves the other paths as stored
SavePaths(doc, changes) ==
    LET stored == Stored(doc)
        new == [f \in DOMAIN stored |->
                  IF f \in DOMAIN changes /\ changes[f] # doc[f]
                  THEN changes[f] ELSE stored[f]]
    IN subscriptions' = (subscriptions \ {stored}) \cup {new}

\* mutant: an upsert that inserts whenever the stored record differs (no unique
\* index behind it)
UpsertSubscriptionInserting(u, id, new) == subscriptions' = subscriptions \cup {new}

\* Subscription.findOneAndUpdate({ userId, stripeSubscriptionId }, {...}, { upsert: true }),
\* with the unique index on stripeSubscriptionId: the matching record is
\* replaced, and a record is inserted only when none matches
UpsertSubscription(u, id, new) ==
    subscriptions' =
        {d \in subscriptions : ~(d.userId = u /\ d.stripeSubscriptionId = id)}
        \cup {new}

\* ---------------------------------------------------------------- requests

NoEvent == Event("", "", 0, "", 0, NoStripeSub)

\* process.env.STRIPE_WEBHOOK_SECRET, the key the processor signs its deliveries with
WebhookSecret == "whsec"

\* the stripe-signature header for a body: a keyed digest, determined by the key
\* and by the body
Sign(key, body) == [key |-> key, body |-> body]

\* a webhook request: the raw body and the stripe-signature header
Request(body, sig) == [body |-> body, sig |-> sig]
NoRequest == Request(NoEvent, Sign("", NoEvent))

\* a verification that only tells whether the header was made with the key
constructEventKeyOnly(body, sig) == sig.key = WebhookSecret

\* stripe.webhooks.constructEvent: recomputes the digest of the received body
\* under the signing secret and compares it with the header; throws otherwise
constructEvent(body, sig) == sig = Sign(WebhookSecret, body)

Idle == [kind |-> "idle", pc |-> "idle", user |-> "", arg |-> "",
         required |-> 0, available |-> 0, balance |-> {}, result |-> "",
         ev |-> NoEvent, doc |-> NoDoc, stripeSub |-> NoStripeSub, count |-> 0,
         req |-> NoRequest, listed |-> {}, charges |-> {}, intents |-> {},
         failed |-> FALSE, snap |-> <<>>, transaction |-> 0]

\* what the reconciliation operations may write: balances, ledger, subscription
\* records, journal
LocalState == <<credits, creditLog, subscriptions, transactions>>

Busy(p) == procs[p].pc # "idle"
InFlight == {p \in Procs : Busy(p)}

\* a new request takes the lowest free slot, if the server accepts one more
CanStart(p) ==
    /\ ~Busy(p)
    /\ \A q \in Procs : q < p => Busy(q)
    /\ Cardinality(InFlight) < limit

\* program points from which a request may still append to the ledger / journal
LogPcs == {"reg_log", "checkCredits", "inc", "log", "adminLog",
           "uc_find", "uc_update", "uc_log",
           "vs_lookup", "vs_retrieve",
           "cc_inc", "cc_tx", "cc_log",
           "cs_retrieve", "cs_upsert", "cs_inc", "cs_log",
           "ip_find", "ip_dup", "ip_inc", "ip_log"}
TxPcs == {"cc_inc", "cc_tx", "cs_retrieve", "cs_upsert", "cs_inc", "cs_log", "cs_tx",
          "vs_lookup", "vs_retrieve",
          "ip_find", "ip_dup", "ip_inc", "ip_log", "ip_tx",
          "pf_find", "pf_save", "pf_tx"}
LogRoom ==
    Len(creditLog) + Cardinality({p \in Procs : procs[p].pc \in LogPcs}) < MaxLog
TxRoom ==
    Len(transactions) + Cardinality({p \in Procs : procs[p].pc \in TxPcs}) < MaxTx

Set(p, r) == procs' = [procs EXCEPT ![p] = r]
Goto(p, pc) == Set(p, [procs[p] EXCEPT !.pc = pc])

\* the request is answered: the slot keeps what the response carries
Answer(p, result) ==
    [Idle EXCEPT !.kind = procs[p].kind, !.pc = "done", !.user = procs[p].user,
                 !.arg = procs[p].arg, !.ev = procs[p].ev,
                 !.required = procs[p].required,
                 !.available = procs[p].available,
                 !.balance = procs[p].balance, !.req = procs[p].req,
                 !.count = procs[p].count, !.failed = procs[p].failed,
                 !.transaction = procs[p].transaction,
                 !.result = result]

Finish(p, result) == Set(p, Answer(p, result))

At(p, kind, pc) == procs[p].kind = kind /\ procs[p].pc = pc

\* handleCheckoutCompleted is called by handleWebhookEvent and by
\* verifyAndProcessSession
InCheckout(p, pc) == procs[p].kind \in {"webhook", "verify"} /\ procs[p].pc = pc

\* the response has been sent: the slot is free again
Respond(p) ==
    /\ procs[p].pc = "done"
    /\ Set(p, Idle)
    /\ UNCHANGED <<store, world, limit>>

\* -------------------------------------------------------------- registerUser

\* registerUser up to User.create
registerUser(p, u) ==
    /\ CanStart(p)
    /\ u \notin registered
    /\ LogRoom
    /\ registered' = registered \cup {u}
    /\ credits' = [credits EXCEPT ![u] = settings.initial_credits]
    /\ IF settings.initial_credits > 0
       THEN Set(p, [Idle EXCEPT !.kind = "registerUser", !.pc = "reg_log", !.user = u])
       ELSE Set(p, [Idle EXCEPT !.kind = "registerUser", !.pc = "done", !.user = u,
                                !.result = "201"])
    /\ UNCHANGED <<creditLog, transactions, subscriptions, resumes, world, limit>>

\* registerUser: logCreditEvent({ type: 'initial', ... })
RegisterLog(p) ==
    /\ At(p, "registerUser", "reg_log")
    /\ creditLog' = Append(creditLog,
          LogEntry(procs[p].user, "initial", settings.initial_credits,
                   {settings.initial_credits}, "", "", 0))
    /\ Finish(p, "201")
    /\ UNCHANGED <<registered, credits, transactions, subscriptions, resumes, world,
                   limit>>

\* ------------------------------------------------------------- deductCredits

StartDeductCredits(p, u, a) ==
    /\ CanStart(p)
    /\ u \in registered
    /\ LogRoom
    /\ Set(p, [Idle EXCEPT !.kind = "deductCredits", !.pc = "checkCredits",
                          !.user = u, !.arg = a])
    /\ UNCHANGED <<store, world, limit>>

\* deductCredits is called on its own and by the credit-gated endpoints
InDeduct(p, pc) ==
    procs[p].kind \in {"deductCredits", "generateJobPost"} /\ procs[p].pc = pc

\* deductCredits returns { success: true }: to the client, or to the endpoint,
\* which goes on to the paid action
DeductReturns(p) ==
    IF procs[p].kind = "deductCredits" THEN Finish(p, "success") ELSE Goto(p, "generate")

\* mutant: the guard lets a balance one short of the cost through
HasCreditsOffByOne(available, required) == available + 1 >= required

\* the guard of the debit, as deductCredits evaluates it on checkCredits' answer
HasCredits(available, required) == available >= required

\* checkCredits, and the two early returns of deductCredits that follow it
checkCredits(p) ==
    /\ InDeduct(p, "checkCredits")
    /\ LET u == procs[p].user
           required == settings.credits_per_action
           available == credits[u]
       IN IF Role(u) = "admin"
          THEN Goto(p, "adminLog")
          ELSE IF HasCredits(available, required)
          THEN Set(p, [procs[p] EXCEPT !.pc = "inc", !.required = required,
                                       !.available = available])
          ELSE Set(p, [Idle EXCEPT !.kind = procs[p].kind, !.pc = "done",
                                   !.user = u, !.arg = procs[p].arg,
                                   !.required = required, !.available = available,
                                   !.result = IF procs[p].kind = "deductCredits"
                                              THEN "insufficient" ELSE "402"])
    /\ UNCHANGED <<store, world, limit>>

\* User.findByIdAndUpdate(userId, { $inc: { credits: -required } }, { new: true })
DeductInc(p) ==
    /\ InDeduct(p, "inc")
    /\ LET u == procs[p].user
           after == credits[u] - procs[p].required
       IN /\ credits' = [credits EXCEPT ![u] = after]
          /\ Set(p, [procs[p] EXCEPT !.pc = "log", !.balance = {after}])
    /\ UNCHANGED <<registered, creditLog, transactions, subscriptions, resumes, world,
                   limit>>

\* mutant: the usage entry records the balance read before the debit as its amount
DeductLogWrongAmount(p) ==
    /\ InDeduct(p, "log")
    /\ creditLog' = Append(creditLog,
          LogEntry(procs[p].user, "usage", procs[p].available, procs[p].balance,
                   procs[p].arg, "", 0))
    /\ DeductReturns(p)
    /\ UNCHANGED <<registered, credits, transactions, subscriptions, resumes, world,
                   limit>>

\* CreditLog.create({ type: 'usage', credits: required, balanceAfter: updatedUser.credits })
DeductLog(p) ==
    /\ InDeduct(p, "log")
    /\ creditLog' = Append(creditLog,
          LogEntry(procs[p].user, "usage", procs[p].required, procs[p].balance,
                   procs[p].arg, "", 0))
    /\ DeductReturns(p)
    /\ UNCHANGED <<registered, credits, transactions, subscriptions, resumes, world,
                   limit>>

\* mutant: the admin branch debits the cost of the action like any other user's
DeductAdminLogDebiting(p) ==
    /\ InDeduct(p, "adminLog")
    /\ credits' = [credits EXCEPT ![procs[p].user] = @ - settings.credits_per_action]
    /\ creditLog' = Append(creditLog,
          LogEntry(procs[p].user, "usage", 0, {}, procs[p].arg, "", 0))
    /\ DeductReturns(p)
    /\ UNCHANGED <<registered, transactions, subscriptions, resumes, world, limit>>

\* the admin branch: CreditLog.create({ type: 'usage', credits: 0, balanceAfter: null })
DeductAdminLog(p) ==
    /\ InDeduct(p, "adminLog")
    /\ creditLog' = Append(creditLog,
          LogEntry(procs[p].user, "usage", 0, {}, procs[p].arg, "", 0))
    /\ DeductReturns(p)
    /\ UNCHANGED <<registered, credits, transactions, subscriptions, resumes, world,
                   limit>>

\* ------------------------------------------------------ the payment processor

Emit(es) == events' = events \cup es

\* an entry of the customer's payment history at the processor: the payment
\* intent (and its charge) and the billing reason of its invoice, if it has one
Payment(session, invoice, reason) ==
    [pi |-> PaymentIntent(session, invoice), billing_reason |-> reason]

NewInvoice == stripe.invoices + 1

\* the processor may issue one more invoice (a plan switch in flight will issue one)
InvoiceRoom ==
    stripe.invoices
      + Cardinality({p \in Procs : procs[p].pc \in {"sp_find", "sp_retrieve", "sp_update"}})
      < MaxInvoices

\* the customer pays the credit checkout session
CustomerPaysCredits ==
    /\ "user1" \in registered
    /\ "cs_credit" \notin stripe.paid
    /\ stripe' = [stripe EXCEPT !.paid = @ \cup {"cs_credit"},
                                !.payments = @ \cup {Payment("cs_credit", 0, "")}]
    /\ Emit({Event("checkout.session.completed", "cs_credit", 0, "", 1, NoStripeSub)})
    /\ UNCHANGED <<store, settings, now, limit, procs>>

\* the customer pays the subscription checkout session: the processor creates the
\* subscription and its first invoice
CustomerSubscribes(status) ==
    /\ "user1" \in registered
    /\ "cs_sub" \notin stripe.paid
    /\ InvoiceRoom
    /\ LET sub == [id |-> "sub_1", status |-> status, interval |-> "month",
                   current_period_start |-> now, current_period_end |-> now + 1,
                   cancel_at_period_end |-> FALSE]
       IN /\ stripe' = [stripe EXCEPT !.paid = @ \cup {"cs_sub"}, !.sub = sub,
                                      !.invoices = NewInvoice,
                                      !.payments = @ \cup
                                          {Payment("", NewInvoice, "subscription_create")}]
          /\ Emit({Event("checkout.session.completed", "cs_sub", 0, "", 1, NoStripeSub),
                   Event("customer.subscription.created", "", 0, "", 0, sub),
                   Event("invoice.payment_succeeded", "", NewInvoice,
                         "subscription_create", 1, [NoStripeSub EXCEPT !.id = "sub_1"])})
    /\ UNCHANGED <<store, settings, now, limit, procs>>

\* the period ends and the renewal invoice is paid
StripeRenews ==
    /\ stripe.sub.status \in {"active", "trialing"}
    /\ now >= stripe.sub.current_period_end
    /\ InvoiceRoom
    /\ LET sub == [stripe.sub EXCEPT !.status = "active",
                                     !.current_period_start = now,
                                     !.current_period_end = now + 1]
       IN /\ stripe' = [stripe EXCEPT !.sub = sub, !.invoices = NewInvoice,
                                      !.payments = @ \cup
                                          {Payment("", NewInvoice, "subscription_cycle")}]
          /\ Emit({Event("invoice.payment_succeeded", "", NewInvoice,
                         "subscription_cycle", 1, [NoStripeSub EXCEPT !.id = "sub_1"]),
                   Event("customer.subscription.updated", "", 0, "", 0, sub)})
    /\ UNCHANGED <<store, settings, now, limit, procs>>

\* the period ends and the renewal invoice is covered by the customer's credit
\* with the processor: the invoice is paid with nothing charged
StripeRenewsAtNoCharge ==
    /\ stripe.sub.status \in {"active", "trialing"}
    /\ now >= stripe.sub.current_period_end
    /\ InvoiceRoom
    /\ LET sub == [stripe.sub EXCEPT !.status = "active",
                                     !.current_period_start = now,
                                     !.current_period_end = now + 1]
       IN /\ stripe' = [stripe EXCEPT !.sub = sub, !.invoices = NewInvoice]
          /\ Emit({Event("invoice.payment_succeeded", "", NewInvoice,
                         "subscription_cycle", 0, [NoStripeSub EXCEPT !.id = "sub_1"]),
                   Event("customer.subscription.updated", "", 0, "", 0, sub)})
    /\ UNCHANGED <<store, settings, now, limit, procs>>

\* the period ends and the charge for the renewal invoice fails
StripeChargeFails ==
    /\ stripe.sub.status \in {"active", "trialing"}
    /\ now >= stripe.sub.current_period_end
    /\ InvoiceRoom
    /\ LET sub == [stripe.sub EXCEPT !.status = "past_due",
                                     !.current_period_start = now,
                                     !.current_period_end = now + 1]
       IN /\ stripe' = [stripe EXCEPT !.sub = sub, !.invoices = NewInvoice,
                                      !.unpaid = NewInvoice]
          /\ Emit({Event("invoice.payment_failed", "", NewInvoice,
                         "subscription_cycle", 0, [NoStripeSub EXCEPT !.id = "sub_1"]),
                   Event("customer.subscription.updated", "", 0, "", 0, sub)})
    /\ UNCHANGED <<store, settings, now, limit, procs>>

\* a later attempt to charge the unpaid invoice succeeds
StripeRetrySucceeds ==
    /\ stripe.sub.status = "past_due"
    /\ stripe.unpaid # 0
    /\ LET sub == [stripe.sub EXCEPT !.status = "active"]
       IN /\ stripe' = [stripe EXCEPT !.sub = sub, !.unpaid = 0,
                                      !.payments = @ \cup
                                          {Payment("", stripe.unpaid, "subscription_cycle")}]
          /\ Emit({Event("invoice.payment_succeeded", "", stripe.unpaid,
                         "subscription_cycle", 1, [NoStripeSub EXCEPT !.id = "sub_1"]),
                   Event("customer.subscription.updated", "", 0, "", 0, sub)})
    /\ UNCHANGED <<store, settings, now, limit, procs>>

\* the processor ends the subscription
StripeCancels ==
    /\ stripe.sub.status \in {"active", "trialing", "past_due"}
    /\ LET sub == [stripe.sub EXCEPT !.status = "canceled"]
       IN /\ stripe' = [stripe EXCEPT !.sub = sub, !.unpaid = 0]
          /\ Emit({Event("customer.subscription.deleted", "", 0, "", 0, sub)})
    /\ UNCHANGED <<store, settings, now, limit, procs>>

Tick ==
    /\ now < MaxTime
    /\ now' = now + 1
    /\ UNCHANGED <<store, settings, stripe, events, limit, procs>>

\* ------------------------------------------------------------------ webhooks

\* Transaction.create runs the schema's validators: an enum violation throws
ValidTransaction(tx) == tx.type \in TransactionTypes

\* handleWebhook: res.json({ received: true })
Ack(p) == Finish(p, "200")

\* handleCheckoutCompleted returns to its caller: the webhook is acknowledged,
\* verifyAndProcessSession goes on to read the transaction back
CheckoutReturns(p) == IF procs[p].kind = "verify" THEN Goto(p, "vs_find") ELSE Ack(p)

\* a dispatch that does not skip the invoices with nothing paid
FirstPcNoZeroSkip(e) ==
    CASE e.type = "checkout.session.completed" ->
            IF SessionMeta(e.session).type = "credit_purchase" THEN "cc_inc"
            ELSE "cs_retrieve"
      [] e.type = "customer.subscription.updated" -> "su_find"
      [] e.type = "customer.subscription.deleted" -> "sd_find"
      [] e.type = "invoice.payment_succeeded" ->
            IF e.sub.id = "" \/ e.billing_reason = "subscription_create" THEN "done"
            ELSE "ip_find"
      [] e.type = "invoice.payment_failed" -> "pf_find"
      [] OTHER -> "done"

\* handleWebhookEvent's switch, and the part of the handler before its first await
FirstPc(e) ==
    CASE e.type = "checkout.session.completed" ->
            IF SessionMeta(e.session).type = "credit_purchase" THEN "cc_inc"
            ELSE "cs_retrieve"
      [] e.type = "customer.subscription.updated" -> "su_find"
      [] e.type = "customer.subscription.deleted" -> "sd_find"
      [] e.type = "invoice.payment_succeeded" ->
            IF e.sub.id = "" \/ e.billing_reason = "subscription_create" THEN "done"
            ELSE IF e.amount_paid <= 0 THEN "done"
            ELSE "ip_find"
      [] e.type = "invoice.payment_failed" -> "pf_find"
      [] OTHER -> "done"

\* controllers/payment.controller.js handleWebhook: a delivery of an emitted event,
\* signed by the processor
handleWebhook(p, e) ==
    /\ CanStart(p)
    /\ e \in events
    /\ FirstPc(e) \in LogPcs => LogRoom
    /\ FirstPc(e) \in TxPcs => TxRoom
    /\ Set(p, [Idle EXCEPT !.kind = "webhook", !.pc = FirstPc(e), !.ev = e,
                          !.req = Request(e, Sign(WebhookSecret, e)),
                          !.result = IF FirstPc(e) = "done" THEN "200" ELSE ""])
    /\ UNCHANGED <<store, world, limit>>

\* handleCheckoutCompleted, credit purchase: User.findByIdAndUpdate($inc)
CheckoutCreditInc(p) ==
    /\ InCheckout(p, "cc_inc")
    /\ LET meta == SessionMeta(procs[p].ev.session)
           after == credits[meta.userId] + meta.creditAmount
       IN /\ credits' = [credits EXCEPT ![meta.userId] = after]
          /\ Set(p, [procs[p] EXCEPT !.pc = "cc_tx", !.user = meta.userId,
                                     !.required = meta.creditAmount,
                                     !.balance = {after}])
    /\ UNCHANGED <<registered, creditLog, transactions, subscriptions, resumes, world,
                   limit>>

\* mutant: the journal entry of the purchase is left pending
CheckoutCreditTxPending(p) ==
    /\ InCheckout(p, "cc_tx")
    /\ transactions' = Append(transactions,
          PaidBy(Tx(procs[p].user, procs[p].ev.session, "", 0, "credit_purchase",
                    "pending", procs[p].required, ""),
                 PaymentIntent(procs[p].ev.session, 0)))
    /\ Goto(p, "cc_log")
    /\ UNCHANGED <<registered, credits, creditLog, subscriptions, resumes, world,
                   limit>>

\* handleCheckoutCompleted, credit purchase: Transaction.create
CheckoutCreditTx(p) ==
    /\ InCheckout(p, "cc_tx")
    /\ transactions' = Append(transactions,
          PaidBy(Tx(procs[p].user, procs[p].ev.session, "", 0, "credit_purchase",
                    "completed", procs[p].required, ""),
                 PaymentIntent(procs[p].ev.session, 0)))
    /\ Goto(p, "cc_log")
    /\ UNCHANGED <<registered, credits, creditLog, subscriptions, resumes, world,
                   limit>>

\* handleCheckoutCompleted, credit purchase: CreditLog.create
CheckoutCreditLog(p) ==
    /\ InCheckout(p, "cc_log")
    /\ creditLog' = Append(creditLog,
          LogEntry(procs[p].user, "purchase", procs[p].required, procs[p].balance,
                   "", procs[p].ev.session, 0))
    /\ CheckoutReturns(p)
    /\ UNCHANGED <<registered, credits, transactions, subscriptions, resumes, world,
                   limit>>

\* handleCheckoutCompleted, subscription: stripe.subscriptions.retrieve
CheckoutSubRetrieve(p) ==
    /\ InCheckout(p, "cs_retrieve")
    /\ Set(p, [procs[p] EXCEPT !.pc = "cs_upsert",
                               !.user = SessionMeta(procs[p].ev.session).userId,
                               !.stripeSub = stripe.sub])
    /\ UNCHANGED <<store, world, limit>>

\* handleCheckoutCompleted, subscription: Subscription.findOneAndUpdate(upsert)
CheckoutSubUpsert(p) ==
    /\ InCheckout(p, "cs_upsert")
    /\ LET meta == SessionMeta(procs[p].ev.session)
           stripeSub == procs[p].stripeSub
           dates == extractPeriodDates(stripeSub)
       IN UpsertSubscription(meta.userId, meta.subscription,
            [userId |-> meta.userId, stripeSubscriptionId |-> meta.subscription,
             plan |-> meta.plan, status |-> stripeSub.status,
             currentPeriodStart |-> dates.currentPeriodStart,
             currentPeriodEnd |-> dates.currentPeriodEnd,
             cancelAtPeriodEnd |-> stripeSub.cancel_at_period_end])
    /\ Goto(p, "cs_inc")
    /\ UNCHANGED <<registered, credits, creditLog, transactions, resumes, world,
                   limit>>

\* handleCheckoutCompleted, subscription: creditLimitForPlan and the $inc
CheckoutSubInc(p) ==
    /\ InCheckout(p, "cs_inc")
    /\ LET meta == SessionMeta(procs[p].ev.session)
           creditsToAdd == creditLimitForPlan(meta.plan)
           after == credits[meta.userId] + creditsToAdd
       IN /\ credits' = [credits EXCEPT ![meta.userId] = after]
          /\ Set(p, [procs[p] EXCEPT !.pc = "cs_log", !.required = creditsToAdd,
                                     !.balance = {after}])
    /\ UNCHANGED <<registered, creditLog, transactions, subscriptions, resumes, world,
                   limit>>

\* handleCheckoutCompleted, subscription: CreditLog.create
CheckoutSubLog(p) ==
    /\ InCheckout(p, "cs_log")
    /\ creditLog' = Append(creditLog,
          LogEntry(procs[p].user, "addition", procs[p].required, procs[p].balance,
                   "", "", 0))
    /\ Goto(p, "cs_tx")
    /\ UNCHANGED <<registered, credits, transactions, subscriptions, resumes, world,
                   limit>>

\* handleCheckoutCompleted, subscription: Transaction.create
CheckoutSubTx(p) ==
    /\ InCheckout(p, "cs_tx")
    /\ LET meta == SessionMeta(procs[p].ev.session)
       IN transactions' = Append(transactions,
            Tx(procs[p].user, procs[p].ev.session, meta.subscription, 0,
               "subscription_payment", "completed", procs[p].required, meta.plan))
    /\ CheckoutReturns(p)
    /\ UNCHANGED <<registered, credits, creditLog, subscriptions, resumes, world, limit>>

\* handleSubscriptionUpdated: Subscription.findOne
SubscriptionUpdatedFind(p) ==
    /\ At(p, "webhook", "su_find")
    /\ LET doc == FindSubscription(procs[p].ev.sub.id)
       IN IF doc = NoDoc
          THEN Ack(p)
          ELSE Set(p, [procs[p] EXCEPT !.pc = "su_save", !.doc = doc])
    /\ UNCHANGED <<store, world, limit>>

\* handleSubscriptionUpdated: the assignments from the payload and subscription.save()
SubscriptionUpdatedSave(p) ==
    /\ At(p, "webhook", "su_save")
    /\ LET stripeSubscription == procs[p].ev.sub
           dates == extractPeriodDates(stripeSubscription)
       IN SavePaths(procs[p].doc,
            [status |-> stripeSubscription.status,
             currentPeriodStart |-> dates.currentPeriodStart,
             currentPeriodEnd |-> dates.currentPeriodEnd,
             cancelAtPeriodEnd |-> stripeSubscription.cancel_at_period_end,
             plan |-> PlanOfInterval(stripeSubscription.interval)])
    /\ Ack(p)
    /\ UNCHANGED <<registered, credits, creditLog, transactions, resumes, world, limit>>

\* handleSubscriptionDeleted: Subscription.findOne
SubscriptionDeletedFind(p) ==
    /\ At(p, "webhook", "sd_find")
    /\ LET doc == FindSubscription(procs[p].ev.sub.id)
       IN IF doc = NoDoc
          THEN Ack(p)
          ELSE Set(p, [procs[p] EXCEPT !.pc = "sd_save", !.doc = doc])
    /\ UNCHANGED <<store, world, limit>>

\* handleSubscriptionDeleted: status = 'expired' and subscription.save()
SubscriptionDeletedSave(p) ==
    /\ At(p, "webhook", "sd_save")
    /\ SavePaths(procs[p].doc, [status |-> "expired"])
    /\ Goto(p, "sd_resumes")
    /\ UNCHANGED <<registered, credits, creditLog, transactions, resumes, world,
                   limit>>

\* mutant: the deletion leaves the resumes as they are
SubscriptionDeletedKeepsResumes(p) ==
    /\ At(p, "webhook", "sd_resumes")
    /\ Ack(p)
    /\ UNCHANGED <<store, world, limit>>

\* handleSubscriptionDeleted: Resume.updateMany(public -> private)
SubscriptionDeletedResumes(p) ==
    /\ At(p, "webhook", "sd_resumes")
    /\ resumes' = {IF r.userId = procs[p].doc.userId /\ r.visibility = "public"
                      /\ ~r.isDeleted
                   THEN [r EXCEPT !.visibility = "private"] ELSE r : r \in resumes}
    /\ Ack(p)
    /\ UNCHANGED <<registered, credits, creditLog, transactions, subscriptions, world,
                   limit>>

\* mutant: an invoice for a subscription without a local record is an error
InvoiceFindFailing(p) ==
    /\ At(p, "webhook", "ip_find")
    /\ LET doc == FindSubscription(procs[p].ev.sub.id)
       IN IF doc = NoDoc
          THEN Finish(p, "500")
          ELSE Set(p, [procs[p] EXCEPT !.pc = "ip_dup", !.doc = doc,
                                       !.user = doc.userId])
    /\ UNCHANGED <<store, world, limit>>

\* handleInvoicePaymentSucceeded: Subscription.findOne
InvoiceFind(p) ==
    /\ At(p, "webhook", "ip_find")
    /\ LET doc == FindSubscription(procs[p].ev.sub.id)
       IN IF doc = NoDoc
          THEN Ack(p)
          ELSE Set(p, [procs[p] EXCEPT !.pc = "ip_dup", !.doc = doc,
                                       !.user = doc.userId])
    /\ UNCHANGED <<store, world, limit>>

\* mutant: the duplicate check looks only at pending transactions
ExistingInvoiceTxPendingOnly(invoice) ==
    \E i \in 1..Len(transactions) :
        /\ transactions[i].stripeInvoiceId = invoice
        /\ transactions[i].status = "pending"

\* Transaction.findOne({ stripeInvoiceId: invoice.id })
ExistingInvoiceTx(invoice) ==
    \E i \in 1..Len(transactions) : transactions[i].stripeInvoiceId = invoice

\* handleInvoicePaymentSucceeded: the duplicate check
InvoiceDuplicateCheck(p) ==
    /\ At(p, "webhook", "ip_dup")
    /\ IF ExistingInvoiceTx(procs[p].ev.invoice)
       THEN Ack(p)
       ELSE Goto(p, "ip_inc")
    /\ UNCHANGED <<store, world, limit>>

\* handleInvoicePaymentSucceeded: creditLimitForPlan(subscription.plan) and the $inc
InvoiceInc(p) ==
    /\ At(p, "webhook", "ip_inc")
    /\ LET u == procs[p].doc.userId
           creditsToAdd == creditLimitForPlan(procs[p].doc.plan)
           after == credits[u] + creditsToAdd
       IN /\ credits' = [credits EXCEPT ![u] = after]
          /\ Set(p, [procs[p] EXCEPT !.pc = "ip_log", !.required = creditsToAdd,
                                     !.balance = {after}])
    /\ UNCHANGED <<registered, creditLog, transactions, subscriptions, resumes, world,
                   limit>>

\* handleInvoicePaymentSucceeded: CreditLog.create
InvoiceLog(p) ==
    /\ At(p, "webhook", "ip_log")
    /\ creditLog' = Append(creditLog,
          LogEntry(procs[p].doc.userId, "addition", procs[p].required,
                   procs[p].balance, "", "", procs[p].ev.invoice))
    /\ Goto(p, "ip_tx")
    /\ UNCHANGED <<registered, credits, transactions, subscriptions, resumes, world,
                   limit>>

\* the type handleInvoicePaymentSucceeded gives the transaction
InvoiceTxType(invoice) ==
    IF invoice.billing_reason = "subscription_update"
    THEN "subscription_switch" ELSE "subscription_renewal"

\* handleInvoicePaymentSucceeded: Transaction.create; when it throws, handleWebhook
\* answers 500
InvoiceTx(p) ==
    /\ At(p, "webhook", "ip_tx")
    /\ LET ev == procs[p].ev
           tx == PaidBy(Tx(procs[p].doc.userId, "", ev.sub.id, ev.invoice,
                           InvoiceTxType(ev), "completed", procs[p].required,
                           procs[p].doc.plan),
                        PaymentIntent("", ev.invoice))
       IN IF ValidTransaction(tx)
          THEN transactions' = Append(transactions, tx) /\ Ack(p)
          ELSE Finish(p, "500") /\ UNCHANGED transactions
    /\ UNCHANGED <<registered, credits, creditLog, subscriptions, resumes, world, limit>>

\* handlePaymentFailed: Subscription.findOne
PaymentFailedFind(p) ==
    /\ At(p, "webhook", "pf_find")
    /\ LET doc == FindSubscription(procs[p].ev.sub.id)
       IN IF doc = NoDoc
          THEN Ack(p)
          ELSE Set(p, [procs[p] EXCEPT !.pc = "pf_save", !.doc = doc,
                                       !.user = doc.userId])
    /\ UNCHANGED <<store, world, limit>>

\* handlePaymentFailed: status = 'past_due' and subscription.save()
PaymentFailedSave(p) ==
    /\ At(p, "webhook", "pf_save")
    /\ SavePaths(procs[p].doc, [status |-> "past_due"])
    /\ Goto(p, "pf_tx")
    /\ UNCHANGED <<registered, credits, creditLog, transactions, resumes, world,
                   limit>>

\* a handlePaymentFailed that journals the failed charge as a completed one
PaymentFailedTxCompleted(p) ==
    /\ At(p, "webhook", "pf_tx")
    /\ transactions' = Append(transactions,
          Tx(procs[p].doc.userId, "", procs[p].ev.sub.id, procs[p].ev.invoice,
             "subscription_renewal", "completed", 0, procs[p].doc.plan))
    /\ Ack(p)
    /\ UNCHANGED <<registered, credits, creditLog, subscriptions, resumes, world, limit>>

\* handlePaymentFailed: Transaction.create({ status: 'failed' })
PaymentFailedTx(p) ==
    /\ At(p, "webhook", "pf_tx")
    /\ transactions' = Append(transactions,
          Tx(procs[p].doc.userId, "", procs[p].ev.sub.id, procs[p].ev.invoice,
             "subscription_renewal", "failed", 0, procs[p].doc.plan))
    /\ Ack(p)
    /\ UNCHANGED <<registered, credits, creditLog, subscriptions, resumes, world, limit>>

\* ----------------------------------------------------------------- switchPlan

\* controllers/payment.controller.js switchPlan: the plan is one of the two
StartSwitchPlan(p, u, newPlan) ==
    /\ CanStart(p)
    /\ u \in registered
    /\ InvoiceRoom
    /\ Set(p, [Idle EXCEPT !.kind = "switchPlan", !.pc = "sp_find", !.user = u,
                          !.arg = newPlan, !.snap = LocalState])
    /\ UNCHANGED <<store, world, limit>>

\* mutant: a switchPlan without the test of the pending cancellation
SwitchPlanFindIgnoringCancellation(p) ==
    /\ At(p, "switchPlan", "sp_find")
    /\ LET subscription == getActiveForUser(procs[p].user)
       IN IF subscription = NoDoc THEN Finish(p, "400")
          ELSE IF subscription.plan = procs[p].arg THEN Finish(p, "400")
          ELSE Set(p, [procs[p] EXCEPT !.pc = "sp_retrieve", !.doc = subscription])
    /\ UNCHANGED <<store, world, limit>>

\* switchPlan: Subscription.getActiveForUser and the three rejections
SwitchPlanFind(p) ==
    /\ At(p, "switchPlan", "sp_find")
    /\ LET subscription == getActiveForUser(procs[p].user)
       IN IF subscription = NoDoc THEN Finish(p, "400")
          ELSE IF subscription.plan = procs[p].arg THEN Finish(p, "400")
          ELSE IF subscription.cancelAtPeriodEnd THEN Finish(p, "400")
          ELSE Set(p, [procs[p] EXCEPT !.pc = "sp_retrieve", !.doc = subscription])
    /\ UNCHANGED <<store, world, limit>>

\* switchPlan: stripe.subscriptions.retrieve, for the id of the current item
SwitchPlanRetrieve(p) ==
    /\ At(p, "switchPlan", "sp_retrieve")
    /\ Set(p, [procs[p] EXCEPT !.pc = "sp_update", !.stripeSub = stripe.sub])
    /\ UNCHANGED <<store, world, limit>>

\* switchPlan: stripe.subscriptions.update with proration_behavior 'always_invoice'
\* and billing_cycle_anchor 'now'. The processor refuses to update a canceled
\* subscription; otherwise it changes the price, restarts the period and issues
\* the proration invoice (paid when the new plan costs more).
SwitchPlanUpdate(p) ==
    /\ At(p, "switchPlan", "sp_update")
    /\ IF stripe.sub.status = "canceled"
       THEN Finish(p, "400") /\ UNCHANGED <<stripe, events>>
       ELSE LET sub == [stripe.sub EXCEPT !.interval = IntervalOfPlan(procs[p].arg),
                                          !.current_period_start = now,
                                          !.current_period_end = now + 1]
                paid == IF procs[p].arg = "yearly" THEN 1 ELSE 0
            IN /\ stripe' = [stripe EXCEPT !.sub = sub, !.invoices = NewInvoice,
                                           !.payments = @ \cup
                                               IF paid > 0
                                               THEN {Payment("", NewInvoice,
                                                             "subscription_update")}
                                               ELSE {}]
               /\ Emit({Event("invoice.payment_succeeded", "", NewInvoice,
                              "subscription_update", paid,
                              [NoStripeSub EXCEPT !.id = sub.id]),
                        Event("customer.subscription.updated", "", 0, "", 0, sub)})
               /\ Set(p, [procs[p] EXCEPT !.pc = "sp_save", !.stripeSub = sub])
    /\ UNCHANGED <<store, settings, now, limit>>

\* mutant: the switch grants the new plan's allotment itself
SwitchPlanSaveGrantingCredits(p) ==
    /\ At(p, "switchPlan", "sp_save")
    /\ LET dates == extractPeriodDates(procs[p].stripeSub)
       IN SavePaths(procs[p].doc,
            [plan |-> procs[p].arg,
             currentPeriodStart |-> dates.currentPeriodStart,
             currentPeriodEnd |-> dates.currentPeriodEnd])
    /\ credits' = [credits EXCEPT ![procs[p].user] = @ + creditLimitForPlan(procs[p].arg)]
    /\ Finish(p, "200")
    /\ UNCHANGED <<registered, creditLog, transactions, resumes, world, limit>>

\* switchPlan: plan and period of the local record, subscription.save()
SwitchPlanSave(p) ==
    /\ At(p, "switchPlan", "sp_save")
    /\ LET dates == extractPeriodDates(procs[p].stripeSub)
       IN SavePaths(procs[p].doc,
            [plan |-> procs[p].arg,
             currentPeriodStart |-> dates.currentPeriodStart,
             currentPeriodEnd |-> dates.currentPeriodEnd])
    /\ Finish(p, "200")
    /\ UNCHANGED <<registered, credits, creditLog, transactions, resumes, world,
                   limit>>

\* ------------------------------------------ cancelSubscription, reactivateSubscription

StartCancelSubscription(p, u) ==
    /\ CanStart(p)
    /\ u \in registered
    /\ Set(p, [Idle EXCEPT !.kind = "cancelSubscription", !.pc = "ca_find", !.user = u,
                          !.snap = LocalState])
    /\ UNCHANGED <<store, world, limit>>

\* cancelSubscription: Subscription.getActiveForUser, 'No active subscription found'
CancelFind(p) ==
    /\ At(p, "cancelSubscription", "ca_find")
    /\ LET subscription == getActiveForUser(procs[p].user)
       IN IF subscription = NoDoc THEN Finish(p, "400")
          ELSE Set(p, [procs[p] EXCEPT !.pc = "ca_update", !.doc = subscription])
    /\ UNCHANGED <<store, world, limit>>

\* stripe.subscriptions.update(id, { cancel_at_period_end: flag }): the processor
\* refuses to update a canceled subscription, otherwise sets the flag and
\* announces the change
UpdateCancelFlag(p, flag, next) ==
    /\ IF stripe.sub.status = "canceled"
       THEN Finish(p, "400") /\ UNCHANGED <<stripe, events>>
       ELSE LET sub == [stripe.sub EXCEPT !.cancel_at_period_end = flag]
            IN /\ stripe' = [stripe EXCEPT !.sub = sub]
               /\ Emit({Event("customer.subscription.updated", "", 0, "", 0, sub)})
               /\ Goto(p, next)
    /\ UNCHANGED <<store, settings, now, limit>>

\* cancelSubscription: the call of the processor
CancelUpdate(p) ==
    /\ At(p, "cancelSubscription", "ca_update")
    /\ UpdateCancelFlag(p, TRUE, "ca_save")

\* cancelSubscription: cancelAtPeriodEnd = true and subscription.save()
CancelSave(p) ==
    /\ At(p, "cancelSubscription", "ca_save")
    /\ SavePaths(procs[p].doc, [cancelAtPeriodEnd |-> TRUE])
    /\ Finish(p, "200")
    /\ UNCHANGED <<registered, credits, creditLog, transactions, resumes, world,
                   limit>>

StartReactivateSubscription(p, u) ==
    /\ CanStart(p)
    /\ u \in registered
    /\ Set(p, [Idle EXCEPT !.kind = "reactivateSubscription", !.pc = "re_find",
                          !.user = u, !.snap = LocalState])
    /\ UNCHANGED <<store, world, limit>>

\* reactivateSubscription: Subscription.findOne({ userId, status: 'active',
\* cancelAtPeriodEnd: true }), 'No subscription pending cancellation found'
ReactivateFind(p) ==
    /\ At(p, "reactivateSubscription", "re_find")
    /\ LET found == {d \in subscriptions : /\ d.userId = procs[p].user
                                           /\ d.status = "active"
                                           /\ d.cancelAtPeriodEnd}
       IN IF found = {} THEN Finish(p, "400")
          ELSE \E d \in found : Set(p, [procs[p] EXCEPT !.pc = "re_update", !.doc = d])
    /\ UNCHANGED <<store, world, limit>>

\* reactivateSubscription: the call of the processor
ReactivateUpdate(p) ==
    /\ At(p, "reactivateSubscription", "re_update")
    /\ UpdateCancelFlag(p, FALSE, "re_save")

\* reactivateSubscription: cancelAtPeriodEnd = false and subscription.save()
ReactivateSave(p) ==
    /\ At(p, "reactivateSubscription", "re_save")
    /\ SavePaths(procs[p].doc, [cancelAtPeriodEnd |-> FALSE])
    /\ Finish(p, "200")
    /\ UNCHANGED <<registered, credits, creditLog, transactions, resumes, world,
                   limit>>

\* ----------------------------------------- createSubscriptionCheckoutSession

\* controllers/payment.controller.js createSubscriptionCheckout, with a valid plan
StartCreateSubscriptionCheckout(p, u, plan) ==
    /\ CanStart(p)
    /\ u \in registered
    /\ Set(p, [Idle EXCEPT !.kind = "createSubscriptionCheckout", !.pc = "sc_find",
                          !.user = u, !.arg = plan])
    /\ UNCHANGED <<store, world, limit>>

\* createSubscriptionCheckoutSession: Subscription.getActiveForUser,
\* 'User already has an active subscription'
CreateCheckoutFind(p) ==
    /\ At(p, "createSubscriptionCheckout", "sc_find")
    /\ IF getActiveForUser(procs[p].user) # NoDoc THEN Finish(p, "400")
       ELSE Goto(p, "sc_customer")
    /\ UNCHANGED <<store, world, limit>>

\* getOrCreateCustomer: the customer id of a subscription record of the user, or
\* else stripe.customers.create, a new customer ("" here: one with no subscription)
getOrCreateCustomer(u) ==
    IF \E d \in subscriptions : d.userId = u THEN u ELSE ""

\* createSubscriptionCheckoutSession: getOrCreateCustomer and
\* stripe.subscriptions.list({ customer, status: 'active', limit: 1 })
CreateCheckoutList(p) ==
    /\ At(p, "createSubscriptionCheckout", "sc_customer")
    /\ LET customerId == getOrCreateCustomer(procs[p].user)
           stripeActiveSubs == IF customerId \in Customers /\ stripe.sub.status = "active"
                               THEN {stripe.sub} ELSE {}
       IN IF stripeActiveSubs # {}
          THEN Set(p, [procs[p] EXCEPT !.pc = "sc_sync", !.stripeSub = stripe.sub])
          ELSE Goto(p, "sc_create")
    /\ UNCHANGED <<store, world, limit>>

\* createSubscriptionCheckoutSession: the processor's subscription is written to
\* the store with the requested plan (findOneAndUpdate, upsert), then
\* 'User already has an active subscription on Stripe. It has been synced'
CreateCheckoutSync(p) ==
    /\ At(p, "createSubscriptionCheckout", "sc_sync")
    /\ LET stSub == procs[p].stripeSub
           dates == extractPeriodDates(stSub)
       IN UpsertSubscription(procs[p].user, stSub.id,
            [userId |-> procs[p].user, stripeSubscriptionId |-> stSub.id,
             plan |-> procs[p].arg, status |-> stSub.status,
             currentPeriodStart |-> dates.currentPeriodStart,
             currentPeriodEnd |-> dates.currentPeriodEnd,
             cancelAtPeriodEnd |-> stSub.cancel_at_period_end])
    /\ Finish(p, "400")
    /\ UNCHANGED <<registered, credits, creditLog, transactions, resumes, world,
                   limit>>

\* createSubscriptionCheckoutSession: stripe.checkout.sessions.create; the session
\* handle is returned
CreateCheckoutSession(p) ==
    /\ At(p, "createSubscriptionCheckout", "sc_create")
    /\ Finish(p, "200")
    /\ UNCHANGED <<store, world, limit>>

\* ------------------------------------------------- syncSubscriptionFromStripe

StartSyncSubscription(p, u) ==
    /\ CanStart(p)
    /\ u \in registered
    /\ Set(p, [Idle EXCEPT !.kind = "syncSubscription", !.pc = "ss_lookup", !.user = u,
                          !.snap = LocalState])
    /\ UNCHANGED <<store, world, limit>>

\* syncSubscriptionFromStripe: the customer, from a local record or from the
\* processor by e-mail (the customer exists once a checkout was paid)
SyncLookup(p) ==
    /\ At(p, "syncSubscription", "ss_lookup")
    /\ IF (\E d \in subscriptions : d.userId = procs[p].user) \/ stripe.paid # {}
       THEN Goto(p, "ss_list")
       ELSE Finish(p, "not_synced")
    /\ UNCHANGED <<store, world, limit>>

\* mutant: the listing is not filtered by status
SyncListAnyStatus(p) ==
    /\ At(p, "syncSubscription", "ss_list")
    /\ IF stripe.sub # NoStripeSub
       THEN Set(p, [procs[p] EXCEPT !.pc = "ss_upsert", !.stripeSub = stripe.sub])
       ELSE Finish(p, "not_synced")
    /\ UNCHANGED <<store, world, limit>>

\* syncSubscriptionFromStripe: stripe.subscriptions.list, active then trialing
SyncList(p) ==
    /\ At(p, "syncSubscription", "ss_list")
    /\ IF stripe.sub.status \in {"active", "trialing"}
       THEN Set(p, [procs[p] EXCEPT !.pc = "ss_upsert", !.stripeSub = stripe.sub])
       ELSE Finish(p, "not_synced")
    /\ UNCHANGED <<store, world, limit>>

\* syncSubscriptionFromStripe: Subscription.findOneAndUpdate(upsert)
SyncUpsert(p) ==
    /\ At(p, "syncSubscription", "ss_upsert")
    /\ LET stripeSub == procs[p].stripeSub
           dates == extractPeriodDates(stripeSub)
       IN UpsertSubscription(procs[p].user, stripeSub.id,
            [userId |-> procs[p].user, stripeSubscriptionId |-> stripeSub.id,
             plan |-> PlanOfInterval(stripeSub.interval),
             status |-> stripeSub.status,
             currentPeriodStart |-> dates.currentPeriodStart,
             currentPeriodEnd |-> dates.currentPeriodEnd,
             cancelAtPeriodEnd |-> stripeSub.cancel_at_period_end])
    /\ Finish(p, "synced")
    /\ UNCHANGED <<registered, credits, creditLog, transactions, resumes, world,
                   limit>>

\* ------------------------------------------------- syncTransactionsFromStripe

StartSyncTransactions(p, u) ==
    /\ CanStart(p)
    /\ u \in registered
    /\ Len(transactions) + Cardinality(stripe.payments) <= MaxTx + 1
    /\ Set(p, [Idle EXCEPT !.kind = "syncTransactions", !.pc = "st_lookup", !.user = u,
                          !.snap = LocalState])
    /\ UNCHANGED <<store, world, limit>>

\* syncTransactionsFromStripe: the customer, from a local record or from
\* stripe.customers.list by e-mail; 'No Stripe customer found' is not an error
SyncTxLookup(p) ==
    /\ At(p, "syncTransactions", "st_lookup")
    /\ IF (\E d \in subscriptions : d.userId = procs[p].user) \/ stripe.paid # {}
       THEN Goto(p, "st_list")
       ELSE Finish(p, "not_synced")
    /\ UNCHANGED <<store, world, limit>>

\* syncTransactionsFromStripe: stripe.charges.list and stripe.paymentIntents.list;
\* every payment is in both lists, as a charge and as its payment intent
SyncTxList(p) ==
    /\ At(p, "syncTransactions", "st_list")
    /\ IF stripe.payments = {}
       THEN Finish(p, "synced")
       ELSE Set(p, [procs[p] EXCEPT !.pc = "st_charges", !.listed = stripe.payments,
                                    !.charges = stripe.payments,
                                    !.intents = stripe.payments])
    /\ UNCHANGED <<store, world, limit>>

\* mutant: the lookup is not scoped to the processor identifier
ExistingPaymentTxAnyPayment(u, pi) ==
    \E i \in 1..Len(transactions) : transactions[i].userId = u

\* an entry of the journal, of the user, that carries the processor identifier
\* as its payment intent or as its charge
MatchingTx(journal, u, pi) ==
    \E i \in 1..Len(journal) :
        /\ journal[i].userId = u
        /\ \/ journal[i].stripePaymentIntentId = pi
           \/ journal[i].chargeId = pi

\* Transaction.findOne({ userId, $or: [{ stripePaymentIntentId }, { 'metadata.chargeId' }] })
\* and its twin of the payment-intent loop
ExistingPaymentTx(u, pi) == MatchingTx(transactions, u, pi)

\* the type given to an imported payment: by its invoice's billing reason when
\* stripe.invoices.retrieve answers, 'subscription_payment' when it throws
SyncedTxType(payment, retrieved) ==
    IF payment.pi.invoice = 0 THEN "credit_purchase"
    ELSE IF retrieved /\ payment.billing_reason = "subscription_cycle"
    THEN "subscription_renewal"
    ELSE "subscription_payment"

\* the next program point of the import, after one more charge or intent
SyncTxAfter(p, charges, intents) ==
    IF charges # {} THEN "st_charges" ELSE IF intents # {} THEN "st_intents" ELSE "done"

\* the body of both import loops for one payment: skip it when the journal has
\* it, otherwise classify it and Transaction.create
SyncTxImport(p, payment, retrieved, charges, intents) ==
    LET u == procs[p].user
        exists == ExistingPaymentTx(u, payment.pi)
        asked == ~exists /\ payment.pi.invoice # 0
        detailed == procs[p].pc = "st_intents" /\ retrieved /\ payment.pi.invoice # 0
        tx == [PaidBy(Tx(u, "", "", IF detailed THEN payment.pi.invoice ELSE 0,
                         SyncedTxType(payment, retrieved), "completed", 0,
                         IF detailed THEN PlanOfInterval(stripe.sub.interval) ELSE ""),
                      payment.pi)
               EXCEPT !.chargeId = IF procs[p].pc = "st_charges" THEN payment.pi
                                   ELSE NoPayment]
        next == SyncTxAfter(p, charges, intents)
    IN /\ asked \/ retrieved
       /\ ~exists => Len(transactions) < MaxTx
       /\ transactions' = IF exists THEN transactions ELSE Append(transactions, tx)
       /\ Set(p, [procs[p] EXCEPT
                    !.pc = next, !.charges = charges, !.intents = intents,
                    !.count = IF exists THEN @ ELSE @ + 1,
                    !.failed = @ \/ (asked /\ ~retrieved),
                    !.result = IF next = "done" THEN "synced" ELSE ""])
       /\ UNCHANGED <<registered, credits, creditLog, subscriptions, resumes, world,
                      limit>>

\* syncTransactionsFromStripe: one turn of the loop over the charges;
\* stripe.invoices.retrieve answers or throws
SyncTxCharge(p) ==
    /\ At(p, "syncTransactions", "st_charges")
    /\ \E charge \in procs[p].charges, retrieved \in BOOLEAN :
          SyncTxImport(p, charge, retrieved, procs[p].charges \ {charge}, procs[p].intents)

\* syncTransactionsFromStripe: one turn of the loop over the payment intents
SyncTxIntent(p) ==
    /\ At(p, "syncTransactions", "st_intents")
    /\ \E intent \in procs[p].intents, retrieved \in BOOLEAN :
          SyncTxImport(p, intent, retrieved, {}, procs[p].intents \ {intent})

\* ------------------------------------------------------- processor failures

\* the program points at which a reconciliation operation awaits the processor
ProcessorCallPcs ==
    {"ca_update", "re_update", "sp_retrieve", "sp_update", "vs_retrieve", "cs_retrieve",
     "ss_lookup", "ss_list", "st_lookup", "st_list"}

ReconciliationOps ==
    {"cancelSubscription", "reactivateSubscription", "switchPlan", "verify",
     "syncSubscription", "syncTransactions"}

\* the awaited call of the processor throws (network failure, invalid id): the
\* service function throws and its controller answers 400 with the message
ProcessorCallFails(p) ==
    /\ procs[p].kind \in ReconciliationOps
    /\ procs[p].pc \in ProcessorCallPcs
    /\ procs[p].pc \in {"ss_lookup", "st_lookup"}
       => ~\E d \in subscriptions : d.userId = procs[p].user
    /\ Set(p, [Idle EXCEPT !.kind = procs[p].kind, !.pc = "done",
                           !.user = procs[p].user, !.arg = procs[p].arg,
                           !.failed = TRUE, !.result = "400"])
    /\ UNCHANGED <<store, world, limit>>

\* ---------------------------------------------------------- getMySubscription

\* controllers/payment.controller.js getMySubscription: one query, one answer
getMySubscription(p, u) ==
    /\ CanStart(p)
    /\ u \in registered
    /\ Set(p, [Idle EXCEPT !.kind = "getMySubscription", !.pc = "done", !.user = u,
                          !.result = IF isUserSubscribed(u) THEN "subscribed"
                                     ELSE "not_subscribed"])
    /\ UNCHANGED <<store, world, limit>>

\* -------------------------------------------------------------------- resumes

\* a Resume document; ids are given in creation order
Resume(id, u, visibility) ==
    [id |-> id, userId |-> u, visibility |-> visibility, isDeleted |-> FALSE]

Visibilities == {"private", "public"}

ResumeIds == 1..MaxResumes

\* Resume.findById
FindResume(id) == {r \in resumes : r.id = id}

\* the filter { userId, visibility: 'public', isDeleted: false }
PublicResumes(u) ==
    {r \in resumes : r.userId = u /\ r.visibility = "public" /\ ~r.isDeleted}

\* Resume.updateMany(filter, { $set: { visibility: 'private' } })
Privatized(u) ==
    {IF r \in PublicResumes(u) THEN [r EXCEPT !.visibility = "private"] ELSE r :
       r \in resumes}

\* createResume: deductCredits(userId, 'resume_creation'), 402 when it fails, and
\* Resume.create with the validated body (which may carry a visibility)
createResume(p, u, visibility) ==
    /\ CanStart(p)
    /\ u \in registered
    /\ LogRoom
    /\ Cardinality(resumes) < MaxResumes
    /\ LET required == settings.credits_per_action
           after == credits[u] - required
           new == Resume(Cardinality(resumes) + 1, u, visibility)
           answer(result) == [Idle EXCEPT !.kind = "createResume", !.pc = "done",
                                          !.user = u, !.arg = visibility,
                                          !.result = result]
       IN IF Role(u) = "admin"
          THEN /\ creditLog' = Append(creditLog,
                     LogEntry(u, "usage", 0, {}, "resume_creation", "", 0))
               /\ resumes' = resumes \cup {new}
               /\ Set(p, answer("201"))
               /\ UNCHANGED credits
          ELSE IF HasCredits(credits[u], required)
          THEN /\ credits' = [credits EXCEPT ![u] = after]
               /\ creditLog' = Append(creditLog,
                     LogEntry(u, "usage", required, {after}, "resume_creation", "", 0))
               /\ resumes' = resumes \cup {new}
               /\ Set(p, answer("201"))
          ELSE /\ Set(p, answer("402"))
               /\ UNCHANGED <<credits, creditLog, resumes>>
    /\ UNCHANGED <<registered, transactions, subscriptions, world, limit>>

\* controllers/coverLetter generateJobPost, after validation: it calls
\* deductCredits(userId, 'job_post_cover_letter')
StartGenerateJobPost(p, u) ==
    /\ CanStart(p)
    /\ u \in registered
    /\ LogRoom
    /\ Set(p, [Idle EXCEPT !.kind = "generateJobPost", !.pc = "checkCredits",
                          !.user = u, !.arg = "job_post_cover_letter"])
    /\ UNCHANGED <<store, world, limit>>

\* mutant: the letter is generated and a failed deduction is answered afterwards
GenerateJobPostUngated(p) ==
    /\ procs[p].kind = "generateJobPost"
    /\ procs[p].pc \in {"generate", "checkCredits"}
    /\ \E result \in {"200", "500"} : Finish(p, result)
    /\ UNCHANGED <<store, world, limit>>

\* mutant: a failed generation gives the deducted credits back
GenerateJobPostRefunding(p) ==
    /\ At(p, "generateJobPost", "generate")
    /\ \/ Finish(p, "200") /\ UNCHANGED credits
       \/ /\ Finish(p, "500")
          /\ credits' = [credits EXCEPT ![procs[p].user] = @ + settings.credits_per_action]
    /\ UNCHANGED <<registered, creditLog, transactions, subscriptions, resumes, world,
                   limit>>

\* generateJobPost after deductCredits succeeded: gatherProfile and the generation
\* service; the letter is returned, or the call throws and the answer is 500
GenerateJobPost(p) ==
    /\ At(p, "generateJobPost", "generate")
    /\ \E result \in {"200", "500"} : Finish(p, result)
    /\ UNCHANGED <<store, world, limit>>

\* updateResume: the subscription gate in front of private -> public
MayPublish(u) == Role(u) = "admin" \/ isUserSubscribed(u)

\* updateResume, with a body that sets the visibility
updateResume(p, u, id, visibility) ==
    /\ CanStart(p)
    /\ u \in registered
    /\ LET found == FindResume(id)
           answer(result) == [Idle EXCEPT !.kind = "updateResume", !.pc = "done",
                                          !.user = u, !.arg = visibility,
                                          !.result = result]
       IN IF found = {} \/ \E r \in found : r.isDeleted
          THEN Set(p, answer("404")) /\ UNCHANGED resumes
          ELSE LET resume == CHOOSE r \in found : TRUE
               IN IF Role(u) # "admin" /\ resume.userId # u
                  THEN Set(p, answer("403")) /\ UNCHANGED resumes
                  ELSE IF /\ visibility = "public"
                          /\ resume.visibility # "public"
                          /\ ~MayPublish(u)
                  THEN Set(p, answer("403")) /\ UNCHANGED resumes
                  ELSE /\ resumes' = (resumes \ {resume})
                                       \cup {[resume EXCEPT !.visibility = visibility]}
                       /\ Set(p, answer("200"))
    /\ UNCHANGED <<registered, credits, creditLog, transactions, subscriptions, world,
                   limit>>

\* deleteResume without force: the soft delete
deleteResume(p, u, id) ==
    /\ CanStart(p)
    /\ u \in registered
    /\ LET found == FindResume(id)
           answer(result) == [Idle EXCEPT !.kind = "deleteResume", !.pc = "done",
                                          !.user = u, !.result = result]
       IN IF found = {}
          THEN Set(p, answer("404")) /\ UNCHANGED resumes
          ELSE LET resume == CHOOSE r \in found : TRUE
               IN IF Role(u) # "admin" /\ resume.userId # u
                  THEN Set(p, answer("403")) /\ UNCHANGED resumes
                  ELSE /\ resumes' = (resumes \ {resume})
                                       \cup {[resume EXCEPT !.isDeleted = TRUE]}
                       /\ Set(p, answer("200"))
    /\ UNCHANGED <<registered, credits, creditLog, transactions, subscriptions, world,
                   limit>>

\* mutant: the cleanup trusts the stored status and ignores the period end
EnforcesForStatusOnly(u) ==
    /\ Role(u) # "admin"
    /\ getActiveForUserStatusOnly(u) = NoDoc

\* enforceVisibility: admins are exempt, subscribers keep their resumes
Enforces(u) == Role(u) # "admin" /\ ~isUserSubscribed(u)

\* enforceVisibility; the answer's `privatized` is result.modifiedCount
enforceVisibility(p, u) ==
    /\ CanStart(p)
    /\ u \in registered
    /\ LET n == IF Enforces(u) THEN Cardinality(PublicResumes(u)) ELSE 0
       IN /\ resumes' = IF Enforces(u) THEN Privatized(u) ELSE resumes
          /\ Set(p, [Idle EXCEPT !.kind = "enforceVisibility", !.pc = "done",
                                 !.user = u, !.result = "200", !.count = n])
    /\ UNCHANGED <<registered, credits, creditLog, transactions, subscriptions, world,
                   limit>>

\* ---------------------------------------------------- verifyAndProcessSession

\* controllers/payment.controller.js verifySession
StartVerifySession(p, u, s) ==
    /\ CanStart(p)
    /\ u \in registered
    /\ LogRoom
    /\ TxRoom
    /\ Set(p, [Idle EXCEPT !.kind = "verify", !.pc = "vs_lookup", !.user = u, !.arg = s,
                          !.snap = LocalState])
    /\ UNCHANGED <<store, world, limit>>

\* mutant: the lookup ignores transactions that are completed
ExistingCompletedSessionTxPendingOnly(s) ==
    \E i \in 1..Len(transactions) :
        /\ transactions[i].stripeSessionId = s
        /\ transactions[i].status = "pending"

\* Transaction.findOne({ stripeSessionId: sessionId, status: 'completed' })
ExistingCompletedSessionTx(s) ==
    \E i \in 1..Len(transactions) :
        /\ transactions[i].stripeSessionId = s
        /\ transactions[i].status = "completed"

\* Transaction.findOne(filter): the position in the journal of the first
\* document the filter matches, 0 when it matches none
FindTransaction(Filter(_)) ==
    IF \E i \in 1..Len(transactions) : Filter(transactions[i])
    THEN CHOOSE i \in 1..Len(transactions) :
            /\ Filter(transactions[i])
            /\ \A k \in 1..(i - 1) : ~Filter(transactions[k])
    ELSE 0

\* verifyAndProcessSession: the lookup and the early return
\* { alreadyProcessed: true, transaction: existingTx }
VerifyLookup(p) ==
    /\ At(p, "verify", "vs_lookup")
    /\ LET Filter(t) == t.stripeSessionId = procs[p].arg /\ t.status = "completed"
       IN IF ExistingCompletedSessionTx(procs[p].arg)
          THEN Set(p, [Answer(p, "already_processed")
                         EXCEPT !.transaction = FindTransaction(Filter)])
          ELSE Goto(p, "vs_retrieve")
    /\ UNCHANGED <<store, world, limit>>

\* mutant: the session's owner is not compared with the requesting user
VerifyRetrieveAnyUser(p) ==
    /\ At(p, "verify", "vs_retrieve")
    /\ LET s == procs[p].arg
           session == Event("checkout.session.completed", s, 0, "", 1, NoStripeSub)
       IN IF s \notin stripe.paid
          THEN Finish(p, "400")
          ELSE Set(p, [procs[p] EXCEPT !.pc = FirstPc(session), !.ev = session])
    /\ UNCHANGED <<store, world, limit>>

\* verifyAndProcessSession: stripe.checkout.sessions.retrieve, the payment_status
\* and owner tests, and the call of handleCheckoutCompleted(session)
VerifyRetrieve(p) ==
    /\ At(p, "verify", "vs_retrieve")
    /\ LET s == procs[p].arg
           session == Event("checkout.session.completed", s, 0, "", 1, NoStripeSub)
       IN IF s \notin stripe.paid
          THEN Finish(p, "400")
          ELSE IF SessionMeta(s).userId # procs[p].user
          THEN Finish(p, "400")
          ELSE Set(p, [procs[p] EXCEPT !.pc = FirstPc(session), !.ev = session])
    /\ UNCHANGED <<store, world, limit>>

\* verifyAndProcessSession: Transaction.findOne({ stripeSessionId }) and the return
VerifyFinalFind(p) ==
    /\ At(p, "verify", "vs_find")
    /\ LET Filter(t) == t.stripeSessionId = procs[p].arg
       IN Set(p, [Answer(p, "processed") EXCEPT !.transaction = FindTransaction(Filter)])
    /\ UNCHANGED <<store, world, limit>>

\* ---------------------------------------------------------- webhook signature

\* bodies a sender other than the processor may post: the completion of the
\* credit checkout, whether or not it was paid
ForgedBodies == {Event("checkout.session.completed", "cs_credit", 0, "", 1, NoStripeSub)}

\* what may arrive at the webhook endpoint: the processor's deliveries, a forged
\* body signed with a guessed key, and a forged body carrying the header of one
\* of the processor's deliveries
Requests ==
    {Request(e, Sign(WebhookSecret, e)) : e \in events}
    \cup {Request(b, Sign("guess", b)) : b \in ForgedBodies}
    \cup {Request(b, Sign(WebhookSecret, e)) : b \in ForgedBodies, e \in events \ ForgedBodies}

\* controllers/payment.controller.js handleWebhook, for any request: 400 when
\* constructEvent throws, otherwise handleWebhookEvent(event)
handleWebhookRequest(p, r) ==
    /\ CanStart(p)
    /\ IF constructEvent(r.body, r.sig)
       THEN /\ FirstPc(r.body) \in LogPcs => LogRoom
            /\ FirstPc(r.body) \in TxPcs => TxRoom
            /\ Set(p, [Idle EXCEPT !.kind = "webhook", !.pc = FirstPc(r.body),
                                   !.ev = r.body, !.req = r,
                                   !.result = IF FirstPc(r.body) = "done"
                                              THEN "200" ELSE ""])
       ELSE Set(p, [Idle EXCEPT !.kind = "webhook", !.pc = "done", !.req = r,
                                !.result = "400"])
    /\ UNCHANGED <<store, world, limit>>

\* ------------------------------------------- updateCredits, updateUserCredits

\* the amounts and operations an administrator sends
AdminAmounts == {0, 1, 5}
Operations == {"add", "subtract", "set"}

Abs(n) == IF n < 0 THEN 0 - n ELSE n

\* updateCredits: the new balance of the operation
newCredits(operation, current, amount) ==
    CASE operation = "add" -> current + amount
      [] operation = "subtract" -> current - amount
      [] operation = "set" -> amount

\* POST /credits/update: a request without an amount (0 is none) is refused
StartUpdateCredits(p, u, amount, operation) ==
    /\ CanStart(p)
    /\ LogRoom
    /\ IF amount = 0
       THEN Set(p, [Idle EXCEPT !.kind = "updateCredits", !.pc = "done", !.user = u,
                                !.arg = operation, !.required = amount,
                                !.result = "400"])
       ELSE Set(p, [Idle EXCEPT !.kind = "updateCredits", !.pc = "uc_find", !.user = u,
                                !.arg = operation, !.required = amount])
    /\ UNCHANGED <<store, world, limit>>

\* updateCredits: User.findById and the new balance
UpdateCreditsFind(p) ==
    /\ At(p, "updateCredits", "uc_find")
    /\ IF procs[p].user \notin registered
       THEN Finish(p, "404")
       ELSE IF newCredits(procs[p].arg, credits[procs[p].user], procs[p].required) < 0
       THEN Set(p, [procs[p] EXCEPT !.pc = "done", !.result = "400",
                                    !.available = credits[procs[p].user]])
       ELSE Set(p, [procs[p] EXCEPT !.pc = "uc_update",
                                    !.available = credits[procs[p].user]])
    /\ UNCHANGED <<store, world, limit>>

\* updateCredits: User.findByIdAndUpdate(userId, { credits: newCredits })
UpdateCreditsUpdate(p) ==
    /\ At(p, "updateCredits", "uc_update")
    /\ LET new == newCredits(procs[p].arg, procs[p].available, procs[p].required)
       IN /\ new <= MaxBalance
          /\ credits' = [credits EXCEPT ![procs[p].user] = new]
          /\ Set(p, [procs[p] EXCEPT !.pc = "uc_log", !.balance = {new}])
    /\ UNCHANGED <<registered, creditLog, transactions, subscriptions, resumes, world,
                   limit>>

\* updateCredits: logCreditEvent({ type: 'admin_adjustment', ... })
UpdateCreditsLog(p) ==
    /\ At(p, "updateCredits", "uc_log")
    /\ creditLog' = Append(creditLog,
          LET new == CHOOSE b \in procs[p].balance : TRUE
          IN LogEntry(procs[p].user, "admin_adjustment",
                      Abs(new - procs[p].available), procs[p].balance, "", "", 0))
    /\ Finish(p, "200")
    /\ UNCHANGED <<registered, credits, transactions, subscriptions, resumes, world,
                   limit>>

\* PATCH /users/:id/credits: a negative amount is refused (no amount is sent
\* below 0 here), then User.findById
StartUpdateUserCredits(p, u, amount) ==
    /\ CanStart(p)
    /\ Set(p, [Idle EXCEPT !.kind = "updateUserCredits", !.pc = "uu_find", !.user = u,
                           !.arg = "set", !.required = amount])
    /\ UNCHANGED <<store, world, limit>>

\* updateUserCredits: User.findById
UpdateUserCreditsFind(p) ==
    /\ At(p, "updateUserCredits", "uu_find")
    /\ IF procs[p].user \notin registered
       THEN Finish(p, "404")
       ELSE Set(p, [procs[p] EXCEPT !.pc = "uu_save",
                                    !.available = credits[procs[p].user]])
    /\ UNCHANGED <<store, world, limit>>

\* updateUserCredits: user.credits = credits; user.save()
UpdateUserCreditsSave(p) ==
    /\ At(p, "updateUserCredits", "uu_save")
    /\ credits' = [credits EXCEPT ![procs[p].user] = procs[p].required]
    /\ Set(p, [procs[p] EXCEPT !.pc = "done", !.result = "200",
                                !.balance = {procs[p].required}])
    /\ UNCHANGED <<registered, creditLog, transactions, subscriptions, resumes, world,
                   limit>>

\* --------------------------------------------------------- data-store failures

\* a data-store call rejects (connection lost, timeout): the await throws, no
\* handler of the operation catches it, and the request is answered with an error

\* deductCredits: User.findByIdAndUpdate throws
DeductIncFails(p) ==
    /\ InDeduct(p, "inc")
    /\ Finish(p, "500")
    /\ UNCHANGED <<store, world, limit>>

\* deductCredits: CreditLog.create throws, after the $inc was applied
DeductLogFails(p) ==
    /\ InDeduct(p, "log")
    /\ Finish(p, "500")
    /\ UNCHANGED <<store, world, limit>>

\* handleCheckoutCompleted, credit purchase: Transaction.create throws, after the
\* $inc was applied; handleWebhook answers 500
CheckoutCreditTxFails(p) ==
    /\ InCheckout(p, "cc_tx")
    /\ Finish(p, "500")
    /\ UNCHANGED <<store, world, limit>>

\* handleCheckoutCompleted, credit purchase: CreditLog.create throws, after the
\* $inc and the Transaction.create were applied
CheckoutCreditLogFails(p) ==
    /\ InCheckout(p, "cc_log")
    /\ Finish(p, "500")
    /\ UNCHANGED <<store, world, limit>>

\* ----------------------------------------------------------- specification

Init0 ==
    /\ registered = {}
    /\ credits = [u \in Users |-> 0]
    /\ creditLog = <<>>
    /\ transactions = <<>>
    /\ subscriptions = {}
    /\ resumes = {}
    /\ settings \in [initial_credits : InitialCreditsValues,
                     credits_per_action : CreditCostValues]
    /\ now = 0
    /\ stripe = [paid |-> {}, sub |-> NoStripeSub, invoices |-> 0, unpaid |-> 0,
                 payments |-> {}]
    /\ events = {}
    /\ procs = [p \in Procs |-> Idle]

\* one request at a time
Init == Init0 /\ limit = 1

\* requests overlap
InitConcurrent == Init0 /\ limit = MaxProcs

Processor ==
    \/ CustomerPaysCredits
    \/ \E status \in {"active", "trialing"} : CustomerSubscribes(status)
    \/ StripeRenews
    \/ StripeChargeFails
    \/ StripeRetrySucceeds
    \/ StripeCancels
    \/ Tick

Ledger(p) ==
    \/ \E u \in Users : registerUser(p, u)
    \/ RegisterLog(p)
    \/ \E u \in Users, a \in Actions : StartDeductCredits(p, u, a)
    \/ checkCredits(p)
    \/ DeductInc(p)
    \/ DeductLog(p)
    \/ DeductAdminLog(p)

Webhook(p) ==
    \/ \E e \in events : handleWebhook(p, e)
    \/ CheckoutCreditInc(p)
    \/ CheckoutCreditTx(p)
    \/ CheckoutCreditLog(p)
    \/ CheckoutSubRetrieve(p)
    \/ CheckoutSubUpsert(p)
    \/ CheckoutSubInc(p)
    \/ CheckoutSubLog(p)
    \/ CheckoutSubTx(p)
    \/ SubscriptionUpdatedFind(p)
    \/ SubscriptionUpdatedSave(p)
    \/ SubscriptionDeletedFind(p)
    \/ SubscriptionDeletedSave(p)
    \/ SubscriptionDeletedResumes(p)
    \/ InvoiceFind(p)
    \/ InvoiceDuplicateCheck(p)
    \/ InvoiceInc(p)
    \/ InvoiceLog(p)
    \/ InvoiceTx(p)
    \/ PaymentFailedFind(p)
    \/ PaymentFailedSave(p)
    \/ PaymentFailedTx(p)

Reconciliation(p) ==
    \/ \E u \in Customers, plan \in Plans : StartSwitchPlan(p, u, plan)
    \/ SwitchPlanFind(p)
    \/ SwitchPlanRetrieve(p)
    \/ SwitchPlanUpdate(p)
    \/ SwitchPlanSave(p)
    \/ \E u \in Customers : StartSyncSubscription(p, u)
    \/ \E u \in Customers : getMySubscription(p, u)
    \/ SyncLookup(p)
    \/ SyncList(p)
    \/ SyncUpsert(p)

Next ==
    \/ Processor
    \/ \E p \in Procs : Ledger(p) \/ Webhook(p) \/ Reconciliation(p) \/ Respond(p)

Spec == Init /\ [][Next]_vars

\* overlapping requests against the ledger: debits, checkout grants and renewal
\* grants, the operations that change a balance
GrantEvents == {e \in events : e.type \in {"checkout.session.completed",
                                            "invoice.payment_succeeded"}}

NextConcurrent ==
    \/ CustomerPaysCredits
    \/ \E status \in {"active", "trialing"} : CustomerSubscribes(status)
    \/ StripeRenews
    \/ Tick
    \/ \E p \in Procs :
          \/ Ledger(p)
          \/ \E e \in GrantEvents : handleWebhook(p, e)
          \/ CheckoutCreditInc(p)
          \/ CheckoutCreditTx(p)
          \/ CheckoutCreditLog(p)
          \/ CheckoutSubRetrieve(p)
          \/ CheckoutSubUpsert(p)
          \/ CheckoutSubInc(p)
          \/ CheckoutSubLog(p)
          \/ CheckoutSubTx(p)
          \/ InvoiceFind(p)
          \/ InvoiceDuplicateCheck(p)
          \/ InvoiceInc(p)
          \/ InvoiceLog(p)
          \/ InvoiceTx(p)
          \/ Respond(p)

SpecConcurrent == InitConcurrent /\ [][NextConcurrent]_vars

\* a delivery the processor does not repeat: the event is acknowledged and gone
handleWebhookOnce(p, e) ==
    /\ CanStart(p)
    /\ e \in events
    /\ FirstPc(e) \in LogPcs => LogRoom
    /\ FirstPc(e) \in TxPcs => TxRoom
    /\ Set(p, [Idle EXCEPT !.kind = "webhook", !.pc = FirstPc(e), !.ev = e,
                          !.req = Request(e, Sign(WebhookSecret, e)),
                          !.result = IF FirstPc(e) = "done" THEN "200" ELSE ""])
    /\ events' = events \ {e}
    /\ UNCHANGED <<store, settings, now, stripe, limit>>

\* handleCheckoutCompleted, in whichever request runs it
Checkout(p) ==
    \/ CheckoutCreditInc(p)
    \/ CheckoutCreditTx(p)
    \/ CheckoutCreditLog(p)
    \/ CheckoutSubRetrieve(p)
    \/ CheckoutSubUpsert(p)
    \/ CheckoutSubInc(p)
    \/ CheckoutSubLog(p)
    \/ CheckoutSubTx(p)

Verify(p) ==
    \/ \E u \in Users, s \in Sessions : StartVerifySession(p, u, s)
    \/ VerifyLookup(p)
    \/ VerifyRetrieve(p)
    \/ VerifyFinalFind(p)

\* manual verification only: no webhook is delivered (the case the operation is for)
NextVerify ==
    \/ CustomerPaysCredits
    \/ \E status \in {"active", "trialing"} : CustomerSubscribes(status)
    \/ \E p \in Procs :
          \/ \E u \in Users : registerUser(p, u)
          \/ RegisterLog(p)
          \/ Verify(p)
          \/ Checkout(p)
          \/ Respond(p)

SpecVerify == Init /\ [][NextVerify]_vars

CheckoutEvents == {e \in events : e.type = "checkout.session.completed"}

\* manual verification overlapping with other verifications and with the webhook
\* delivery of the checkout event, each event delivered once
NextVerifyConcurrent ==
    \/ CustomerPaysCredits
    \/ \E status \in {"active", "trialing"} : CustomerSubscribes(status)
    \/ \E p \in Procs :
          \/ \E u \in Customers : registerUser(p, u)
          \/ RegisterLog(p)
          \/ \E e \in CheckoutEvents : handleWebhookOnce(p, e)
          \/ \E u \in Customers : getMySubscription(p, u)
          \/ Verify(p)
          \/ Checkout(p)
          \/ Respond(p)

SpecVerifyConcurrent == InitConcurrent /\ [][NextVerifyConcurrent]_vars

CreditPurchaseEvents ==
    {e \in CheckoutEvents : SessionMeta(e.session).type = "credit_purchase"}

\* debits and credit purchases, one request at a time, with data-store calls
\* that may fail
NextFailures ==
    \/ CustomerPaysCredits
    \/ \E p \in Procs :
          \/ \E u \in Customers : registerUser(p, u)
          \/ RegisterLog(p)
          \/ \E u \in Customers, a \in Actions : StartDeductCredits(p, u, a)
          \/ checkCredits(p)
          \/ DeductInc(p)
          \/ DeductIncFails(p)
          \/ DeductLog(p)
          \/ DeductLogFails(p)
          \/ \E e \in CreditPurchaseEvents :
                /\ credits[SessionMeta(e.session).userId] + PurchasedCredits <= MaxBalance
                /\ handleWebhook(p, e)
          \/ CheckoutCreditInc(p)
          \/ CheckoutCreditTx(p)
          \/ CheckoutCreditTxFails(p)
          \/ CheckoutCreditLog(p)
          \/ CheckoutCreditLogFails(p)
          \/ Respond(p)

SpecFailures == Init /\ [][NextFailures]_vars

VisibilityEvents == {e \in events : e.type \in {"checkout.session.completed",
                                                  "customer.subscription.deleted"}}

\* subscriptions beginning and ending, and the resumes their users publish, one
\* request at a time
NextVisibility ==
    \/ \E status \in {"active", "trialing"} : CustomerSubscribes(status)
    \/ StripeCancels
    \/ Tick
    \/ \E p \in Procs :
          \/ \E u \in Users : registerUser(p, u)
          \/ RegisterLog(p)
          \/ \E e \in VisibilityEvents : handleWebhook(p, e)
          \/ CheckoutSubRetrieve(p)
          \/ CheckoutSubUpsert(p)
          \/ CheckoutSubInc(p)
          \/ CheckoutSubLog(p)
          \/ CheckoutSubTx(p)
          \/ SubscriptionDeletedFind(p)
          \/ SubscriptionDeletedSave(p)
          \/ SubscriptionDeletedResumes(p)
          \/ \E u \in Users, v \in Visibilities : createResume(p, u, v)
          \/ \E u \in Users, id \in ResumeIds, v \in Visibilities :
                updateResume(p, u, id, v)
          \/ \E u \in Users, id \in ResumeIds : deleteResume(p, u, id)
          \/ \E u \in Users : enforceVisibility(p, u)
          \/ Respond(p)

SpecVisibility == Init /\ [][NextVisibility]_vars

\* ------------------------------------------------------------------ claims

Quiescent == \A p \in Procs : procs[p].pc \in {"idle", "done"}

Count(seq, Test(_)) == Cardinality({i \in 1..Len(seq) : Test(seq[i])})

\* the invoices the processor has announced as paid, by billing reason
PaidInvoices(reason) ==
    {e.invoice : e \in {x \in events : /\ x.type = "invoice.payment_succeeded"
                                       /\ x.billing_reason = reason
                                       /\ x.amount_paid > 0}}
FailedInvoices == {e.invoice : e \in {x \in events : x.type = "invoice.payment_failed"}}

GrantsForInvoice(i) ==
    LET Test(l) == l.type = "addition" /\ l.invoice = i IN Count(creditLog, Test)
TxForInvoice(i) ==
    LET Test(t) == t.stripeInvoiceId = i IN Count(transactions, Test)
CompletedTxForInvoice(i) ==
    LET Test(t) == t.stripeInvoiceId = i /\ t.status = "completed"
    IN Count(transactions, Test)
GrantsForSession(s) ==
    LET Test(l) == l.type \in {"purchase", "addition"} /\ l.session = s
    IN Count(creditLog, Test)
CompletedTxForSession(s) ==
    LET Test(t) == t.stripeSessionId = s /\ t.status = "completed"
    IN Count(transactions, Test)

\* C1: whenever no ledger operation is in progress, the balance stored on every
\* user equals the signed sum of that user's ledger entries (usage negative;
\* initial, purchase and addition positive).
C1_BalanceIsLedgerSum ==
    Quiescent => \A u \in registered : credits[u] = SignedSum(creditLog, u)

\* a debit, a checkout grant and more have been applied and nothing is in progress
C1_Witness ==
    /\ Quiescent
    /\ \E i, j \in 1..Len(creditLog) :
          /\ creditLog[i].type = "usage" /\ creditLog[i].credits > 0
          /\ creditLog[j].type \in {"purchase", "addition"}
    /\ credits["user1"] > 0

\* C2: a deductCredits call that finds the cost greater than the balance is
\* answered with a failure carrying the cost and the balance, and its step
\* changes neither the balance nor the ledger.
C2_InsufficientDebitChangesNothing ==
    [][\A p \in Procs :
          (/\ At(p, "deductCredits", "checkCredits")
           /\ Role(procs[p].user) # "admin"
           /\ settings.credits_per_action > credits[procs[p].user]
           /\ procs'[p] # procs[p])
          => /\ procs'[p].pc = "done"
             /\ procs'[p].result = "insufficient"
             /\ procs'[p].required = settings.credits_per_action
             /\ procs'[p].available = credits[procs[p].user]
             /\ credits' = credits
             /\ creditLog' = creditLog]_vars

\* balance 2, cost 3: the answer reports required 3, available 2, balance still 2
C2_Witness ==
    \E p \in Procs :
        /\ At(p, "deductCredits", "done")
        /\ procs[p].result = "insufficient"
        /\ procs[p].required = 3
        /\ procs[p].available = 2
        /\ credits[procs[p].user] = 2

\* C3: in every interleaving of deductCredits calls the stored balance is never
\* negative.
C3_BalanceNeverNegative == \A u \in Users : credits[u] >= 0

\* C4: however often the checkout-completed event of a credit purchase is
\* delivered, the purchase is credited once and the journal holds one completed
\* entry for its session id.
C4_CheckoutGrantedOnce ==
    \A s \in Sessions :
        SessionMeta(s).type = "credit_purchase"
        => GrantsForSession(s) <= 1 /\ CompletedTxForSession(s) <= 1

C6_ConcurrentRenewalGrantedOnce ==
    \A i \in PaidInvoices("subscription_cycle") :
        GrantsForInvoice(i) <= 1 /\ TxForInvoice(i) <= 1

\* C7: a subscription record that is expired stays expired, unless the step is
\* the upsert of a checkout-completed event.
C7_ExpiredStaysExpired ==
    [][\A d \in subscriptions :
          d.status = "expired"
          => \/ \E p \in Procs : InCheckout(p, "cs_upsert") /\ procs'[p] # procs[p]
             \/ \E n \in subscriptions' :
                   /\ n.stripeSubscriptionId = d.stripeSubscriptionId
                   /\ n.status = "expired"]_vars

\* C8: the answer of a subscription query is "subscribed" exactly when the user
\* has a record with status active or trialing whose period end is after now.
C8_SubscribedIffActiveAndUnexpired ==
    [][\A p \in Procs :
          (procs[p].pc = "idle" /\ procs'[p].kind = "getMySubscription")
          => (procs'[p].result = "subscribed"
              <=> \E d \in subscriptions :
                     /\ d.userId = procs'[p].user
                     /\ d.status \in {"active", "trialing"}
                     /\ d.currentPeriodEnd > now)]_vars

\* the stored status still reads active, the period is over, the answer is no
C8_Witness ==
    \E p \in Procs :
        /\ At(p, "getMySubscription", "done")
        /\ procs[p].result = "not_subscribed"
        /\ \E d \in subscriptions :
              /\ d.userId = procs[p].user
              /\ d.status = "active"
              /\ d.currentPeriodEnd <= now

\* a record without the fields a plan switch may write
WithoutPlanAndPeriod(d) ==
    [userId |-> d.userId, stripeSubscriptionId |-> d.stripeSubscriptionId,
     status |-> d.status, cancelAtPeriodEnd |-> d.cancelAtPeriodEnd]

\* C9: no step of a switchPlan call changes a balance, the ledger, the journal
\* or a resume, and in the subscription store it changes at most the plan and
\* the period of a record.
C9_SwitchPlanFrame ==
    [][\A p \in Procs :
          (procs[p].kind = "switchPlan" /\ procs'[p] # procs[p])
          => /\ credits' = credits
             /\ creditLog' = creditLog
             /\ transactions' = transactions
             /\ resumes' = resumes
             /\ registered' = registered
             /\ Cardinality(subscriptions') = Cardinality(subscriptions)
             /\ {WithoutPlanAndPeriod(d) : d \in subscriptions'}
                  = {WithoutPlanAndPeriod(d) : d \in subscriptions}]_vars

\* a switch from monthly to yearly has succeeded and the record shows the new plan
C9_Witness ==
    \E p \in Procs :
        /\ At(p, "switchPlan", "done")
        /\ procs[p].result = "200"
        /\ procs[p].arg = "yearly"
        /\ FindSubscription("sub_1").plan = "yearly"
        /\ creditLog # <<>>

\* C10: however often the paid invoice of a plan switch is delivered, its
\* allotment is granted once.
C10_SwitchGrantedOnce ==
    \A i \in PaidInvoices("subscription_update") : GrantsForInvoice(i) <= 1

\* a request handling the checkout-completed event of a credit purchase
CreditPurchaseDelivery(p) ==
    /\ procs[p].kind = "webhook"
    /\ procs[p].ev.type = "checkout.session.completed"
    /\ SessionMeta(procs[p].ev.session).type = "credit_purchase"

\* C11: a delivery of the checkout-completed event of a credit purchase runs
\* three writes, each once and in this order: it adds exactly the purchased
\* amount to the user's balance, writes one completed transaction carrying the
\* checkout-session id, and appends one purchase ledger entry of that amount;
\* it changes nothing else and is then acknowledged.
C11_CreditPurchaseDelivery ==
    [][\A p \in Procs :
          (CreditPurchaseDelivery(p) /\ procs'[p] # procs[p])
          => LET meta == SessionMeta(procs[p].ev.session)
                 u == meta.userId
                 n == meta.creditAmount
             IN /\ subscriptions' = subscriptions /\ resumes' = resumes
                /\ procs[p].pc = "cc_inc"
                     => /\ credits' = [credits EXCEPT ![u] = credits[u] + n]
                        /\ creditLog' = creditLog /\ transactions' = transactions
                        /\ procs'[p].pc = "cc_tx"
                /\ procs[p].pc = "cc_tx"
                     => /\ credits' = credits /\ creditLog' = creditLog
                        /\ \E tx \in {transactions'[Len(transactions')]} :
                              /\ transactions' = Append(transactions, tx)
                              /\ tx.stripeSessionId = procs[p].ev.session
                              /\ tx.status = "completed"
                              /\ tx.type = "credit_purchase"
                              /\ tx.userId = u /\ tx.creditsAdded = n
                        /\ procs'[p].pc = "cc_log"
                /\ procs[p].pc = "cc_log"
                     => /\ credits' = credits /\ transactions' = transactions
                        /\ \E e \in {creditLog'[Len(creditLog')]} :
                              /\ creditLog' = Append(creditLog, e)
                              /\ e.type = "purchase" /\ e.userId = u /\ e.credits = n
                        /\ procs'[p].pc = "done" /\ procs'[p].result = "200"
                /\ procs[p].pc = "done"
                     => credits' = credits /\ creditLog' = creditLog
                        /\ transactions' = transactions]_vars

\* the delivery is acknowledged: balance 2 + 5, one purchase entry, one completed
\* transaction for the session
C11_Witness ==
    \E p \in Procs :
        /\ CreditPurchaseDelivery(p)
        /\ procs[p].pc = "done" /\ procs[p].result = "200"
        /\ settings.initial_credits = 2
        /\ credits["user1"] = 2 + PurchasedCredits
        /\ GrantsForSession(procs[p].ev.session) = 1
        /\ CompletedTxForSession(procs[p].ev.session) = 1

\* the ledger entries written for a checkout session: the purchase entry carries
\* the session id, the subscription entry is the addition without an invoice
GrantsForCheckout(s) ==
    IF SessionMeta(s).type = "credit_purchase" THEN GrantsForSession(s)
    ELSE LET Test(l) == l.type = "addition" /\ l.invoice = 0 IN Count(creditLog, Test)

\* C12: with verification calls made one after the other (and no webhook
\* delivered), every checkout session is granted at most once and has at most
\* one completed transaction, however often it is verified; and a call that
\* finds a completed transaction for its session answers "already processed"
\* and changes no balance, ledger, subscription, journal or resume.
C12_VerifyIdempotent ==
    /\ [](\A s \in Sessions :
            GrantsForCheckout(s) <= 1 /\ CompletedTxForSession(s) <= 1)
    /\ [][\A p \in Procs :
            (/\ At(p, "verify", "vs_lookup")
             /\ CompletedTxForSession(procs[p].arg) >= 1
             /\ procs'[p] # procs[p])
            => /\ procs'[p].pc = "done"
               /\ procs'[p].result = "already_processed"
               /\ store' = store]_vars

\* the second verification of the paid credit session: already processed, the
\* balance is 2 + 5
C12_Witness ==
    \E p \in Procs :
        /\ At(p, "verify", "done")
        /\ procs[p].arg = "cs_credit"
        /\ procs[p].result = "already_processed"
        /\ GrantsForCheckout("cs_credit") = 1
        /\ CompletedTxForSession("cs_credit") = 1
        /\ settings.initial_credits = 2
        /\ credits["user1"] = 2 + PurchasedCredits

\* C13: with verification calls overlapping each other and the (single) webhook
\* delivery of the checkout event, the credits of a session are granted at most
\* once and at most one completed transaction exists for its session id.
C13_VerifyAndWebhookGrantOnce ==
    \A s \in Sessions :
        /\ GrantsForCheckout(s) <= 1
        /\ CompletedTxForSession(s) <= 1

\* the processor reports the session unpaid, or the session is another user's
VerifyMustFail(p) ==
    \/ procs[p].arg \notin stripe.paid
    \/ SessionMeta(procs[p].arg).userId # procs[p].user

\* C14: a verification of a session that has no completed transaction, and that
\* the processor reports unpaid or that belongs to another user, changes no
\* local state in any of its steps and is answered with an error.
C14_VerifyRejects ==
    [][\A p \in Procs :
          (/\ procs[p].kind = "verify"
           /\ CompletedTxForSession(procs[p].arg) = 0
           /\ VerifyMustFail(p)
           /\ procs'[p] # procs[p])
          => /\ store' = store
             /\ procs[p].pc \in {"vs_lookup", "vs_retrieve", "done"}
             /\ procs[p].pc = "vs_lookup" => procs'[p].pc = "vs_retrieve"
             /\ procs[p].pc = "vs_retrieve"
                  => procs'[p].pc = "done" /\ procs'[p].result = "400"
             /\ procs[p].pc = "done" => procs[p].result = "400"]_vars

\* admin1 asked to verify user1's paid credit session: refused, nothing granted
C14_Witness ==
    \E p \in Procs :
        /\ At(p, "verify", "done")
        /\ procs[p].user = "admin1"
        /\ procs[p].arg = "cs_credit"
        /\ "cs_credit" \in stripe.paid
        /\ procs[p].result = "400"
        /\ transactions = <<>>
        /\ creditLog = <<>>
        /\ credits["user1"] = 0 /\ credits["admin1"] = 0

\* C15: no request observes the user as subscribed through the record of the
\* subscription checkout while the plan's allotment for that checkout has not
\* been added to the balance.
C15_ActiveOnlyWithGrant ==
    \A p \in Procs :
        (At(p, "getMySubscription", "done") /\ procs[p].result = "subscribed")
        => credits[procs[p].user] >= creditLimitForPlan(SessionMeta("cs_sub").plan)

\* C16: after an operation that failed on a data-store write, with no request in
\* progress, every balance still equals the signed sum of its ledger entries
\* (no balance change without its entry, no entry without its balance change).
C16_AllOrNothing ==
    (Quiescent /\ \E p \in Procs : procs[p].pc = "done" /\ procs[p].result = "500")
    => \A u \in registered : credits[u] = SignedSum(creditLog, u)

\* a request handling the subscription-deleted event
DeletedDelivery(p) ==
    procs[p].kind = "webhook" /\ procs[p].ev.type = "customer.subscription.deleted"

\* C17: a delivery of the subscription-deleted event for a subscription that
\* has a local record goes through the save and the resume update, and when it
\* is acknowledged the record's status is expired and the record's user has no
\* non-deleted resume with visibility public.
C17_DeletedExpiresAndPrivatizes ==
    [][\A p \in Procs :
          (DeletedDelivery(p) /\ procs'[p] # procs[p])
          => LET id == procs[p].ev.sub.id
             IN /\ (procs[p].pc = "sd_find" /\ FindSubscription(id) # NoDoc)
                     => procs'[p].pc = "sd_save"
                /\ procs[p].pc = "sd_save"
                     => /\ procs'[p].pc = "sd_resumes"
                        /\ \A d \in subscriptions' :
                              d.stripeSubscriptionId = id => d.status = "expired"
                /\ procs[p].pc = "sd_resumes"
                     => /\ procs'[p].pc = "done" /\ procs'[p].result = "200"
                        /\ \A d \in subscriptions' :
                              d.stripeSubscriptionId = id => d.status = "expired"
                        /\ \A r \in resumes' :
                              (r.userId = procs[p].doc.userId /\ ~r.isDeleted)
                              => r.visibility = "private"]_vars

\* the deletion is acknowledged: the record is expired, the user's resume is
\* private, and the admin's resume is still public
C17_Witness ==
    \E p \in Procs :
        /\ DeletedDelivery(p)
        /\ procs[p].pc = "done" /\ procs[p].result = "200"
        /\ FindSubscription("sub_1").status = "expired"
        /\ \E r \in resumes :
              r.userId = "user1" /\ ~r.isDeleted /\ r.visibility = "private"
        /\ \E r \in resumes :
              r.userId = "admin1" /\ ~r.isDeleted /\ r.visibility = "public"

\* the user has a record with status active or trialing whose period has not ended
HasCurrentSubscription(u) ==
    \E d \in subscriptions : /\ d.userId = u
                             /\ d.status \in {"active", "trialing"}
                             /\ d.currentPeriodEnd > now

\* C18: enforceVisibility called by an admin or by a user with a current
\* subscription changes no resume and reports 0; called by any other user
\* (also one whose record reads active after its period has ended) it leaves
\* that user without a public non-deleted resume, reports how many it made
\* private, and changes no other resume.
C18_EnforceVisibility ==
    [][\A p \in Procs :
          (procs[p].pc = "idle" /\ procs'[p].kind = "enforceVisibility")
          => LET u == procs'[p].user
             IN IF Role(u) = "admin" \/ HasCurrentSubscription(u)
                THEN resumes' = resumes /\ procs'[p].count = 0
                ELSE /\ \A r \in resumes' :
                          (r.userId = u /\ ~r.isDeleted) => r.visibility = "private"
                     /\ procs'[p].count = Cardinality(PublicResumes(u))
                     /\ resumes \ PublicResumes(u) \subseteq resumes'
                     /\ Cardinality(resumes') = Cardinality(resumes)]_vars

\* the record still reads active, its period is over, and the cleanup has made
\* one resume private
C18_Witness ==
    \E p \in Procs :
        /\ At(p, "enforceVisibility", "done")
        /\ procs[p].user = "user1"
        /\ procs[p].count = 1
        /\ \E d \in subscriptions :
              d.userId = "user1" /\ d.status = "active" /\ d.currentPeriodEnd <= now
        /\ PublicResumes("user1") = {}

\* -------------------------------------------- specification: webhook requests

\* the checkouts are paid or not, and requests of any sender reach the webhook
\* endpoint, handled one at a time
NextWebhookRequests ==
    \/ CustomerPaysCredits
    \/ CustomerSubscribes("active")
    \/ \E p \in Procs :
          \/ \E u \in Customers : registerUser(p, u)
          \/ RegisterLog(p)
          \/ \E r \in Requests : handleWebhookRequest(p, r)
          \/ Checkout(p)
          \/ Respond(p)

SpecWebhookRequests == Init /\ [][NextWebhookRequests]_vars

\* ------------------------------------------------ specification: paid actions

\* users buy credits and call the credit-gated endpoints; requests overlap
NextPaidActions ==
    \/ CustomerPaysCredits
    \/ \E p \in Procs :
          \/ \E u \in Users : registerUser(p, u)
          \/ RegisterLog(p)
          \/ \E e \in CreditPurchaseEvents : handleWebhookOnce(p, e)
          \/ CheckoutCreditInc(p)
          \/ CheckoutCreditTx(p)
          \/ CheckoutCreditLog(p)
          \/ \E u \in Users : StartGenerateJobPost(p, u)
          \/ checkCredits(p)
          \/ DeductInc(p)
          \/ DeductLog(p)
          \/ DeductAdminLog(p)
          \/ GenerateJobPost(p)
          \/ \E u \in Users, v \in Visibilities : createResume(p, u, v)
          \/ Respond(p)

SpecPaidActions == InitConcurrent /\ [][NextPaidActions]_vars

\* ----------------------------------- specification: cancellation and plan switch

SubscriptionEvents ==
    {e \in events : \/ e.type = "customer.subscription.updated"
                    \/ e.type = "checkout.session.completed"
                       /\ SessionMeta(e.session).type = "subscription"}

\* a subscriber cancels, reactivates and switches plan while the processor's
\* deliveries come in; requests overlap
NextCancel ==
    \/ CustomerSubscribes("active")
    \/ \E p \in Procs :
          \/ \E u \in Customers : registerUser(p, u)
          \/ RegisterLog(p)
          \/ \E e \in SubscriptionEvents : handleWebhookOnce(p, e)
          \/ CheckoutSubRetrieve(p)
          \/ CheckoutSubUpsert(p)
          \/ CheckoutSubInc(p)
          \/ CheckoutSubLog(p)
          \/ CheckoutSubTx(p)
          \/ SubscriptionUpdatedFind(p)
          \/ SubscriptionUpdatedSave(p)
          \/ \E u \in Customers : StartCancelSubscription(p, u)
          \/ CancelFind(p)
          \/ CancelUpdate(p)
          \/ CancelSave(p)
          \/ \E u \in Customers : StartReactivateSubscription(p, u)
          \/ ReactivateFind(p)
          \/ ReactivateUpdate(p)
          \/ ReactivateSave(p)
          \/ \E u \in Customers, plan \in Plans : StartSwitchPlan(p, u, plan)
          \/ SwitchPlanFind(p)
          \/ SwitchPlanRetrieve(p)
          \/ SwitchPlanUpdate(p)
          \/ SwitchPlanSave(p)
          \/ Respond(p)

SpecCancel == InitConcurrent /\ [][NextCancel]_vars

\* ------------------------------------ specification: subscription checkout

\* a customer asks for subscription checkouts before and after subscribing,
\* while time passes and the checkout delivery may or may not have arrived;
\* requests are handled one at a time
NextSubscribe ==
    \/ CustomerSubscribes("active")
    \/ Tick
    \/ \E p \in Procs :
          \/ \E u \in Customers : registerUser(p, u)
          \/ RegisterLog(p)
          \/ \E e \in SubscriptionEvents : handleWebhook(p, e)
          \/ CheckoutSubRetrieve(p)
          \/ CheckoutSubUpsert(p)
          \/ CheckoutSubInc(p)
          \/ CheckoutSubLog(p)
          \/ CheckoutSubTx(p)
          \/ \E u \in Customers, plan \in Plans : StartCreateSubscriptionCheckout(p, u, plan)
          \/ CreateCheckoutFind(p)
          \/ CreateCheckoutList(p)
          \/ CreateCheckoutSync(p)
          \/ CreateCheckoutSession(p)
          \/ Respond(p)

SpecSubscribe == Init /\ [][NextSubscribe]_vars

\* ------------------------------------- specification: processor failures

\* the reconciliation operations, one request at a time, with calls of the
\* processor that may throw
NextProcessorFailures ==
    \/ CustomerPaysCredits
    \/ CustomerSubscribes("active")
    \/ \E p \in Procs :
          \/ \E u \in Customers : registerUser(p, u)
          \/ RegisterLog(p)
          \/ \E e \in CheckoutEvents : handleWebhookOnce(p, e)
          \/ Checkout(p)
          \/ Verify(p)
          \/ \E u \in Customers : StartCancelSubscription(p, u)
          \/ CancelFind(p)
          \/ CancelUpdate(p)
          \/ CancelSave(p)
          \/ \E u \in Customers : StartReactivateSubscription(p, u)
          \/ ReactivateFind(p)
          \/ ReactivateUpdate(p)
          \/ ReactivateSave(p)
          \/ \E u \in Customers, plan \in Plans : StartSwitchPlan(p, u, plan)
          \/ SwitchPlanFind(p)
          \/ SwitchPlanRetrieve(p)
          \/ SwitchPlanUpdate(p)
          \/ SwitchPlanSave(p)
          \/ \E u \in Customers : StartSyncSubscription(p, u)
          \/ SyncLookup(p)
          \/ SyncList(p)
          \/ SyncUpsert(p)
          \/ \E u \in Customers : StartSyncTransactions(p, u)
          \/ SyncTxLookup(p)
          \/ SyncTxList(p)
          \/ SyncTxCharge(p)
          \/ SyncTxIntent(p)
          \/ ProcessorCallFails(p)
          \/ Respond(p)

SpecProcessorFailures == Init /\ [][NextProcessorFailures]_vars

\* ------------------------------------------- specification: transaction import

\* payments at the processor, their checkout events handled or not, and
\* syncTransactionsFromStripe run again and again, one request at a time
NextSyncTransactions ==
    \/ CustomerPaysCredits
    \/ CustomerSubscribes("active")
    \/ \E p \in Procs :
          \/ \E u \in Customers : registerUser(p, u)
          \/ RegisterLog(p)
          \/ \E e \in CheckoutEvents : handleWebhookOnce(p, e)
          \/ Checkout(p)
          \/ \E u \in Customers : StartSyncTransactions(p, u)
          \/ SyncTxLookup(p)
          \/ SyncTxList(p)
          \/ SyncTxCharge(p)
          \/ SyncTxIntent(p)
          \/ Respond(p)

SpecSyncTransactions == Init /\ [][NextSyncTransactions]_vars

\* ------------------------------------------- specification: subscription sync

\* a customer with or without a subscription at the processor, active, trialing
\* or cancelled, the checkout event handled or not, and
\* syncSubscriptionFromStripe, one request at a time
NextSyncSubscription ==
    \/ CustomerPaysCredits
    \/ \E status \in {"active", "trialing"} : CustomerSubscribes(status)
    \/ StripeCancels
    \/ Tick
    \/ \E p \in Procs :
          \/ \E u \in Customers : registerUser(p, u)
          \/ RegisterLog(p)
          \/ \E e \in CheckoutEvents : handleWebhookOnce(p, e)
          \/ Checkout(p)
          \/ \E u \in Customers : StartSyncSubscription(p, u)
          \/ SyncLookup(p)
          \/ SyncList(p)
          \/ SyncUpsert(p)
          \/ Respond(p)

SpecSyncSubscription == Init /\ [][NextSyncSubscription]_vars

\* ---------------------------------------- specification: admin adjustments

\* an administrator changes the balance of a user through both endpoints, one
\* request at a time
NextAdmin ==
    \E p \in Procs :
        \/ \E u \in Customers : registerUser(p, u)
        \/ RegisterLog(p)
        \/ \E u \in Customers, amount \in AdminAmounts, operation \in Operations :
              StartUpdateCredits(p, u, amount, operation)
        \/ UpdateCreditsFind(p)
        \/ UpdateCreditsUpdate(p)
        \/ UpdateCreditsLog(p)
        \/ \E u \in Customers, amount \in AdminAmounts :
              StartUpdateUserCredits(p, u, amount)
        \/ UpdateUserCreditsFind(p)
        \/ UpdateUserCreditsSave(p)
        \/ Respond(p)

SpecAdmin == Init /\ [][NextAdmin]_vars

\* ------------------------- specification: admin adjustments among other changes

\* POST /credits/update overlapping with deductCredits and with the delivery of
\* a paid credit purchase, all for the same user
NextAdminConcurrent ==
    \/ CustomerPaysCredits
    \/ \E p \in Procs :
          \/ \E u \in Customers : registerUser(p, u)
          \/ RegisterLog(p)
          \/ \E u \in Customers, amount \in AdminAmounts, operation \in Operations :
                StartUpdateCredits(p, u, amount, operation)
          \/ UpdateCreditsFind(p)
          \/ UpdateCreditsUpdate(p)
          \/ UpdateCreditsLog(p)
          \/ \E u \in Customers, a \in Actions : StartDeductCredits(p, u, a)
          \/ checkCredits(p)
          \/ DeductInc(p)
          \/ DeductLog(p)
          \/ \E e \in CheckoutEvents : handleWebhookOnce(p, e)
          \/ CheckoutCreditInc(p)
          \/ CheckoutCreditTx(p)
          \/ CheckoutCreditLog(p)
          \/ Respond(p)

SpecAdminConcurrent == InitConcurrent /\ [][NextAdminConcurrent]_vars

\* ------------------------------------------- specification: repeated deliveries

\* the events that carry a payment: paid checkouts, and paid renewal and
\* plan-switch invoices
PaidEvents ==
    {Event("checkout.session.completed", s, 0, "", 1, NoStripeSub) : s \in Sessions}
    \cup {Event("invoice.payment_succeeded", "", i, reason, 1,
                [NoStripeSub EXCEPT !.id = "sub_1"]) :
             i \in 1..MaxInvoices, reason \in {"subscription_cycle", "subscription_update"}}

\* handleWebhook has answered: the processor takes a 200 as the acknowledgement
\* of the event and delivers the event again after any other answer
RespondDelivery(p) ==
    /\ At(p, "webhook", "done")
    /\ events' = IF procs[p].result = "200" THEN events \ {procs[p].ev} ELSE events
    /\ Set(p, Idle)
    /\ UNCHANGED <<store, settings, now, stripe, limit>>

\* the deliveries of the events that carry a payment, and their handling
Deliveries ==
    \E p \in Procs :
        \/ \E e \in events \cap PaidEvents : handleWebhook(p, e)
        \/ Checkout(p)
        \/ InvoiceFind(p)
        \/ InvoiceDuplicateCheck(p)
        \/ InvoiceInc(p)
        \/ InvoiceLog(p)
        \/ InvoiceTx(p)
        \/ RespondDelivery(p)

\* a customer buys credits, subscribes, renews and switches plan; every event
\* that carries a payment is delivered until it is acknowledged; the data store
\* is available
NextDelivery ==
    \/ CustomerPaysCredits
    \/ CustomerSubscribes("active")
    \/ StripeRenews
    \/ Tick
    \/ \E p \in Procs :
          \/ \E u \in Customers : registerUser(p, u)
          \/ RegisterLog(p)
          \/ \E u \in Customers, plan \in Plans : StartSwitchPlan(p, u, plan)
          \/ SwitchPlanFind(p)
          \/ SwitchPlanRetrieve(p)
          \/ SwitchPlanUpdate(p)
          \/ SwitchPlanSave(p)
          \/ Respond(p) /\ procs[p].kind # "webhook"
    \/ Deliveries

SpecDelivery == Init /\ [][NextDelivery]_vars /\ WF_vars(Deliveries)

\* ------------------------------------------- specification: subscription upserts

\* the three writers of subscription records (checkout-completed handling, by
\* webhook and by verification, subscription sync, and the sync inside
\* createSubscriptionCheckoutSession) with overlapping requests and repeated
\* deliveries
NextUpserts ==
    \/ CustomerSubscribes("active")
    \/ Tick
    \/ \E p \in Procs :
          \/ \E u \in Customers : registerUser(p, u)
          \/ RegisterLog(p)
          \/ \E e \in SubscriptionEvents : handleWebhook(p, e)
          \/ CheckoutSubRetrieve(p)
          \/ CheckoutSubUpsert(p)
          \/ CheckoutSubInc(p)
          \/ CheckoutSubLog(p)
          \/ CheckoutSubTx(p)
          \/ \E u \in Customers : StartVerifySession(p, u, "cs_sub")
          \/ VerifyLookup(p)
          \/ VerifyRetrieve(p)
          \/ VerifyFinalFind(p)
          \/ \E u \in Customers : StartSyncSubscription(p, u)
          \/ SyncLookup(p)
          \/ SyncList(p)
          \/ SyncUpsert(p)
          \/ \E u \in Customers, plan \in Plans : StartCreateSubscriptionCheckout(p, u, plan)
          \/ CreateCheckoutFind(p)
          \/ CreateCheckoutList(p)
          \/ CreateCheckoutSync(p)
          \/ CreateCheckoutSession(p)
          \/ Respond(p)

SpecUpserts == InitConcurrent /\ [][NextUpserts]_vars

\* ------------------------------------------------- specification: paid invoices

InvoiceEvents == {e \in events : e.type \in {"checkout.session.completed",
                                               "invoice.payment_succeeded"}}

\* a subscription is bought and renewed, with and without a charge, and the
\* deliveries are handled one at a time
NextInvoices ==
    \/ \E status \in {"active", "trialing"} : CustomerSubscribes(status)
    \/ StripeRenews
    \/ StripeRenewsAtNoCharge
    \/ Tick
    \/ \E p \in Procs :
          \/ \E u \in Customers : registerUser(p, u)
          \/ RegisterLog(p)
          \/ \E e \in InvoiceEvents : handleWebhook(p, e)
          \/ CheckoutSubRetrieve(p)
          \/ CheckoutSubUpsert(p)
          \/ CheckoutSubInc(p)
          \/ CheckoutSubLog(p)
          \/ CheckoutSubTx(p)
          \/ InvoiceFind(p)
          \/ InvoiceDuplicateCheck(p)
          \/ InvoiceInc(p)
          \/ InvoiceLog(p)
          \/ InvoiceTx(p)
          \/ Respond(p)

SpecInvoices == Init /\ [][NextInvoices]_vars

\* the events whose handlers have no credit side effect
NoCreditEvents == {"customer.subscription.updated", "customer.subscription.deleted",
                   "invoice.payment_failed"}

\* request p takes a step of the delivery of an event of one of the types
HandlerStep(p, types) ==
    /\ procs'[p] # procs[p]
    /\ procs'[p].kind = "webhook"
    /\ procs'[p].ev.type \in types

\* C19: no step of the handlers of subscription-updated, subscription-deleted
\* and invoice-payment-failed events changes a balance or appends a ledger
\* entry; the payment-failed handler, for a subscription it has a record of,
\* sets the record to past_due and appends exactly one transaction entry, with
\* status failed, and has done both when the delivery is acknowledged.
C19_NoCreditSideEffects ==
    [][\A p \in Procs :
          HandlerStep(p, NoCreditEvents)
          => /\ credits' = credits
             /\ creditLog' = creditLog
             /\ procs'[p].ev.type = "invoice.payment_failed"
                => /\ IF procs[p].pc = "pf_tx"
                      THEN /\ Len(transactions') = Len(transactions) + 1
                           /\ SubSeq(transactions', 1, Len(transactions)) = transactions
                           /\ LET t == transactions'[Len(transactions')]
                              IN /\ t.status = "failed"
                                 /\ t.stripeInvoiceId = procs[p].ev.invoice
                                 /\ t.creditsAdded = 0
                           /\ procs'[p].pc = "done"
                           /\ \E d \in subscriptions' :
                                 /\ d.stripeSubscriptionId = procs[p].ev.sub.id
                                 /\ d.status = "past_due"
                      ELSE transactions' = transactions
                   /\ procs[p].pc = "pf_save"
                      => /\ procs'[p].pc = "pf_tx"
                         /\ \E d \in subscriptions' :
                               /\ d.stripeSubscriptionId = procs[p].ev.sub.id
                               /\ d.status = "past_due"]_vars

\* a failed renewal has been delivered to a user who holds credits: the record
\* is past_due, the journal has the failed entry, the balance is untouched
C19_Witness ==
    \E p \in Procs :
        /\ At(p, "webhook", "done")
        /\ procs[p].ev.type = "invoice.payment_failed"
        /\ \E d \in subscriptions :
              /\ d.stripeSubscriptionId = procs[p].ev.sub.id
              /\ d.status = "past_due"
              /\ credits[d.userId] > 0
              /\ credits[d.userId] = SignedSum(creditLog, d.userId)
        /\ \E i \in 1..Len(transactions) :
              /\ transactions[i].status = "failed"
              /\ transactions[i].stripeInvoiceId = procs[p].ev.invoice

\* the paid-invoice events that handleInvoicePaymentSucceeded returns from at once
SkippedInvoice(e) ==
    /\ e.type = "invoice.payment_succeeded"
    /\ e.billing_reason = "subscription_create" \/ e.amount_paid = 0

\* C20: the delivery of an invoice-payment-succeeded event whose billing reason
\* is subscription_create, or whose paid amount is zero, is acknowledged at
\* once and changes no balance, no ledger entry and no transaction entry.
C20_SkippedInvoices ==
    [][\A p \in Procs :
          (HandlerStep(p, {"invoice.payment_succeeded"}) /\ SkippedInvoice(procs'[p].ev))
          => /\ procs[p].pc = "idle"
             /\ procs'[p].pc = "done"
             /\ procs'[p].result = "200"
             /\ credits' = credits
             /\ creditLog' = creditLog
             /\ transactions' = transactions]_vars

\* a renewal invoice paid with nothing charged, of a subscription the server has
\* a record of, was delivered, and the journal has no entry for it
C20_Witness ==
    \E p \in Procs :
        /\ At(p, "webhook", "done")
        /\ SkippedInvoice(procs[p].ev)
        /\ procs[p].ev.billing_reason = "subscription_cycle"
        /\ procs[p].ev.amount_paid = 0
        /\ FindSubscription(procs[p].ev.sub.id) # NoDoc
        /\ TxForInvoice(procs[p].ev.invoice) = 0

\* C21: a webhook request whose signature does not verify against the signing
\* secret is answered with 400 at once, no event is handed to
\* handleWebhookEvent, and nothing in the data store changes; every delivery
\* that is being processed, or was, carried a signature that verifies.
C21_UnsignedRejected ==
    /\ [](\A p \in Procs :
            (procs[p].kind = "webhook" /\ procs[p].result # "400")
            => /\ procs[p].req.sig = Sign(WebhookSecret, procs[p].req.body)
               /\ procs[p].ev = procs[p].req.body)
    /\ [][\A p \in Procs :
            (/\ procs[p].pc = "idle"
             /\ procs'[p].kind = "webhook"
             /\ procs'[p].req.sig # Sign(WebhookSecret, procs'[p].req.body))
            => /\ procs'[p].pc = "done"
               /\ procs'[p].result = "400"
               /\ procs'[p].ev = NoEvent
               /\ store' = store]_vars

\* a forged completion of the unpaid credit checkout, carrying the header of a
\* genuine delivery, was rejected, and the user has been granted nothing
C21_Witness ==
    \E p \in Procs :
        /\ At(p, "webhook", "done")
        /\ procs[p].result = "400"
        /\ procs[p].req.body \in ForgedBodies
        /\ procs[p].req.sig.key = WebhookSecret
        /\ "cs_credit" \notin stripe.paid
        /\ GrantsForCheckout("cs_credit") = 0
        /\ transactions # <<>>

\* the ledger has the usage entry deductCredits writes when it succeeds for
\* user u and action a
DeductedIn(log, u, a) ==
    \E i \in 1..Len(log) :
        /\ log[i].userId = u
        /\ log[i].type = "usage"
        /\ log[i].action = a
        /\ log[i].credits = IF Role(u) = "admin" THEN 0
                            ELSE settings.credits_per_action
Deducted(u, a) == DeductedIn(creditLog, u, a)

\* C22: a cover letter is generated, and a resume is created, only in a request
\* whose deductCredits call has succeeded (the usage entry is in the ledger);
\* a request whose deductCredits reports insufficient credits is answered 402
\* with nothing created, nothing debited and nothing logged.
C22_PaidActionAfterDeduction ==
    /\ [](\A p \in Procs :
            (/\ procs[p].kind = "generateJobPost"
             /\ \/ procs[p].pc = "generate"
                \/ procs[p].pc = "done" /\ procs[p].result \in {"200", "500"})
            => Deducted(procs[p].user, "job_post_cover_letter"))
    /\ [][\A p \in Procs :
            /\ (procs'[p] # procs[p] /\ procs'[p].kind = "createResume")
               => LET u == procs'[p].user
                  IN IF Role(u) = "admin" \/ credits[u] >= settings.credits_per_action
                     THEN /\ procs'[p].result = "201"
                          /\ DeductedIn(creditLog', u, "resume_creation")
                          /\ Len(creditLog') = Len(creditLog) + 1
                          /\ Cardinality(resumes') = Cardinality(resumes) + 1
                          /\ credits'[u] = IF Role(u) = "admin" THEN credits[u]
                                           ELSE credits[u] - settings.credits_per_action
                     ELSE /\ procs'[p].result = "402"
                          /\ store' = store
            /\ (/\ procs'[p] # procs[p]
                /\ procs'[p].kind = "generateJobPost"
                /\ procs'[p].result = "402")
               => /\ procs[p].pc = "checkCredits"
                  /\ credits[procs[p].user] < settings.credits_per_action
                  /\ store' = store]_vars

\* two overlapping requests of a user who can pay for one letter: one was
\* generated after its debit, the other was refused
C22_Witness ==
    \E p, q \in Procs :
        /\ At(p, "generateJobPost", "done") /\ procs[p].result = "200"
        /\ At(q, "generateJobPost", "done") /\ procs[q].result = "402"
        /\ procs[p].user = "user1" /\ procs[q].user = "user1"
        /\ Count(creditLog, LAMBDA l : l.type = "usage" /\ l.userId = "user1") = 1

\* C23: for an admin, checkCredits allows the action with required = 0 whatever
\* the stored balance, and deductCredits succeeds with 0 credits deducted: it
\* appends a usage entry of 0 credits and leaves every stored balance as it was.
C23_AdminUnlimited ==
    [][\A p \in Procs :
          (/\ procs'[p] # procs[p]
           /\ procs[p].kind = "deductCredits"
           /\ Role(procs[p].user) = "admin")
          => /\ credits' = credits
             /\ procs[p].pc \in {"checkCredits", "adminLog", "done"}
             /\ procs[p].pc = "checkCredits"
                => /\ procs'[p].pc = "adminLog"
                   /\ procs'[p].required = 0
                   /\ creditLog' = creditLog
             /\ procs[p].pc = "adminLog"
                => /\ procs'[p].pc = "done"
                   /\ procs'[p].result = "success"
                   /\ procs'[p].required = 0
                   /\ creditLog' = Append(creditLog,
                         LogEntry(procs[p].user, "usage", 0, {}, procs[p].arg, "", 0))]_vars

\* an admin whose stored balance is below the cost of the action has been
\* served, and the balance is what it was
C23_Witness ==
    \E p \in Procs :
        /\ At(p, "deductCredits", "done")
        /\ procs[p].user = "admin1"
        /\ procs[p].result = "success"
        /\ credits["admin1"] = settings.initial_credits
        /\ credits["admin1"] < settings.credits_per_action
        /\ \E i \in 1..Len(creditLog) :
              /\ creditLog[i].userId = "admin1"
              /\ creditLog[i].type = "usage"
              /\ creditLog[i].credits = 0

\* C24: a switchPlan request that finds the user's active subscription with
\* cancelAtPeriodEnd set ends there with an error: the processor is not called
\* (its state is unchanged and it announces nothing) and the local subscription
\* records are unchanged; a switchPlan request that goes on to the processor
\* read a record with no pending cancellation.
C24_NoSwitchWhileCancelling ==
    /\ [](\A p \in Procs :
            (procs[p].kind = "switchPlan"
             /\ procs[p].pc \in {"sp_retrieve", "sp_update", "sp_save"})
            => ~procs[p].doc.cancelAtPeriodEnd)
    /\ [][\A p \in Procs :
            (/\ At(p, "switchPlan", "sp_find")
             /\ procs'[p] # procs[p]
             /\ getActiveForUser(procs[p].user) # NoDoc
             /\ getActiveForUser(procs[p].user).cancelAtPeriodEnd)
            => /\ procs'[p].pc = "done"
               /\ procs'[p].result = "400"
               /\ subscriptions' = subscriptions
               /\ stripe' = stripe
               /\ events' = events]_vars

\* a switch to the other plan was refused because of the pending cancellation:
\* the record and the processor still have the monthly plan
C24_Witness ==
    \E p \in Procs :
        /\ At(p, "switchPlan", "done")
        /\ procs[p].result = "400"
        /\ procs[p].arg = "yearly"
        /\ \E d \in subscriptions :
              /\ d.userId = procs[p].user
              /\ d.status = "active"
              /\ d.plan = "monthly"
              /\ d.cancelAtPeriodEnd
        /\ stripe.sub.interval = "month"
        /\ stripe.sub.cancel_at_period_end

\* C25: a createSubscriptionCheckoutSession request for a user who has an
\* active subscription ends with an error, creates no checkout session and
\* leaves the subscription records as they were: when the local store shows
\* the subscription the request ends at once; when the processor has it the
\* request does not go on to create a session; and the request that ends with
\* the error has changed no subscription record.
C25_NoCheckoutWhenSubscribed ==
    [][\A p \in Procs :
          (procs[p].kind = "createSubscriptionCheckout" /\ procs'[p] # procs[p])
          => /\ (procs[p].pc = "sc_find" /\ getActiveForUser(procs[p].user) # NoDoc)
                => procs'[p].result = "400" /\ store' = store
             /\ (procs[p].pc = "sc_customer" /\ stripe.sub.status = "active")
                => procs'[p].pc # "sc_create"
             /\ procs'[p].result = "400" => subscriptions' = subscriptions]_vars

\* C26: in cancelSubscription, reactivateSubscription, switchPlan,
\* verifyAndProcessSession, syncSubscriptionFromStripe and
\* syncTransactionsFromStripe, the step at which a call of the processor fails
\* ends the request with an error, and balances, ledger, subscription records
\* and journal are then what they were when the request began.
C26_ProcessorFailureFailsClosed ==
    [][\A p \in Procs :
          (/\ procs'[p].kind \in ReconciliationOps
           /\ procs'[p].failed
           /\ ~procs[p].failed)
          => /\ procs'[p].pc = "done"
             /\ procs'[p].result = "400"
             /\ LocalState' = procs[p].snap]_vars

\* C27: in every reachable state the store has at most one subscription record
\* for each pair of user and processor subscription id, whatever the order and
\* overlap of checkout-completed handling, subscription sync and the sync of
\* createSubscriptionCheckoutSession.
C27_OneRecordPerSubscription ==
    \A d1, d2 \in subscriptions :
        (d1.userId = d2.userId /\ d1.stripeSubscriptionId = d2.stripeSubscriptionId)
        => d1 = d2

\* the checkout was handled, and a subscription sync and the sync of a checkout
\* request for the other plan have both written the record since: there is one
C27_Witness ==
    /\ \E p, q \in Procs :
          /\ At(p, "syncSubscription", "done") /\ procs[p].result = "synced"
          /\ At(q, "createSubscriptionCheckout", "done") /\ procs[q].result = "400"
          /\ procs[q].arg = "yearly"
    /\ \E i \in 1..Len(transactions) : transactions[i].stripeSessionId = "cs_sub"
    /\ Cardinality(subscriptions) = 1

\* C28: syncTransactionsFromStripe creates a transaction entry for a processor
\* payment only when the user has no entry that matches the payment's
\* identifier; when it has run, every payment it listed has an entry, and a run
\* that lists only payments that had one imports nothing; no step of it changes
\* a balance or the ledger.
C28_ImportOnlyMissing ==
    /\ [][\A p \in Procs :
            (procs[p].kind = "syncTransactions" /\ procs'[p] # procs[p])
            => /\ credits' = credits
               /\ creditLog' = creditLog
               /\ \/ transactions' = transactions
                  \/ /\ Len(transactions') = Len(transactions) + 1
                     /\ SubSeq(transactions', 1, Len(transactions)) = transactions
                     /\ LET tx == transactions'[Len(transactions')]
                        IN /\ tx.userId = procs[p].user
                           /\ tx.stripePaymentIntentId \in
                                  {c.pi : c \in procs[p].listed}
                           /\ ~MatchingTx(transactions, procs[p].user,
                                          tx.stripePaymentIntentId)]_vars
    /\ [](\A p \in Procs :
            (At(p, "syncTransactions", "done") /\ procs[p].result = "synced")
            => /\ \A c \in procs[p].listed :
                     MatchingTx(transactions, procs[p].user, c.pi)
               /\ (\A c \in procs[p].listed :
                       MatchingTx(procs[p].snap[4], procs[p].user, c.pi))
                  => (procs[p].count = 0 /\ transactions = procs[p].snap[4])
               /\ Len(transactions) = Len(procs[p].snap[4]) + procs[p].count)

\* a first run imported payments, a second run over the same processor history
\* imported none
C28_Witness ==
    \E p \in Procs :
        /\ At(p, "syncTransactions", "done") /\ procs[p].result = "synced"
        /\ procs[p].count = 0
        /\ procs[p].listed = stripe.payments
        /\ Cardinality(stripe.payments) = 2
        /\ \A c \in procs[p].listed :
              \E i \in 1..Len(transactions) : transactions[i].chargeId = c.pi

\* the record syncSubscriptionFromStripe writes for a processor subscription
SyncedRecord(u, stripeSub) ==
    [userId |-> u, stripeSubscriptionId |-> stripeSub.id,
     plan |-> IF stripeSub.interval = "year" THEN "yearly" ELSE "monthly",
     status |-> stripeSub.status,
     currentPeriodStart |-> stripeSub.current_period_start,
     currentPeriodEnd |-> stripeSub.current_period_end,
     cancelAtPeriodEnd |-> stripeSub.cancel_at_period_end]

\* C29: no step of syncSubscriptionFromStripe changes a balance, the ledger or
\* the journal; it answers not-synced, without error and with nothing changed
\* locally, exactly when the processor shows no customer or, for the customer,
\* no active or trialing subscription; otherwise it puts the active or
\* trialing subscription the processor showed into the one record of the user
\* and that subscription, leaves the other records alone and answers synced.
C29_SyncSubscription ==
    [][\A p \in Procs :
          (procs[p].kind = "syncSubscription" /\ procs'[p] # procs[p])
          => /\ credits' = credits
             /\ creditLog' = creditLog
             /\ transactions' = transactions
             /\ procs[p].pc = "ss_lookup"
                => /\ subscriptions' = subscriptions
                   /\ procs'[p].pc = "done" <=> stripe.paid = {}
             /\ procs[p].pc = "ss_list"
                => /\ subscriptions' = subscriptions
                   /\ procs'[p].pc = "done"
                         <=> stripe.sub.status \notin {"active", "trialing"}
                   /\ procs'[p].pc # "done" => procs'[p].stripeSub = stripe.sub
             /\ (procs[p].pc \in {"ss_lookup", "ss_list"} /\ procs'[p].pc = "done")
                => /\ procs'[p].result = "not_synced"
                   /\ ~procs'[p].failed
                   /\ LocalState' = procs[p].snap
             /\ procs[p].pc = "ss_upsert"
                => LET new == SyncedRecord(procs[p].user, procs[p].stripeSub)
                   IN /\ procs[p].stripeSub.status \in {"active", "trialing"}
                      /\ procs'[p].pc = "done" /\ procs'[p].result = "synced"
                      /\ new \in subscriptions'
                      /\ \A d \in subscriptions' :
                            (d.userId = new.userId
                               /\ d.stripeSubscriptionId = new.stripeSubscriptionId)
                            => d = new
                      /\ \A d \in subscriptions \cup subscriptions' :
                            (d.userId # new.userId
                               \/ d.stripeSubscriptionId # new.stripeSubscriptionId)
                            => (d \in subscriptions /\ d \in subscriptions')]_vars

\* a sync has written the record of a subscription whose checkout event was
\* never handled: the record is there, the journal is empty and the ledger has
\* the registration entry at most
C29_Witness ==
    \E p \in Procs :
        /\ At(p, "syncSubscription", "done") /\ procs[p].result = "synced"
        /\ subscriptions = {SyncedRecord(procs[p].user, stripe.sub)}
        /\ stripe.sub.status = "trialing"
        /\ transactions = <<>>
        /\ Len(creditLog) <= 1
\* an admin request that was answered with success and changed the balance
AdminChange(p, kinds) ==
    /\ procs[p].kind \in kinds
    /\ procs[p].pc = "done"
    /\ procs[p].result = "200"
    /\ procs[p].balance # {procs[p].available}

\* the ledger ends with the admin_adjustment entry of the change of request p
AdminChangeLogged(p) ==
    /\ Len(creditLog) > 0
    /\ LET e == creditLog[Len(creditLog)]
       IN /\ e.userId = procs[p].user
          /\ e.type = "admin_adjustment"
          /\ e.balanceAfter = {credits[procs[p].user]}
          /\ e.credits = Abs(credits[procs[p].user] - procs[p].available)

\* C30: when an admin request that changed a user's balance, through either
\* endpoint, is answered, the ledger ends with an admin_adjustment entry for
\* that user that records the size of the change and the resulting balance.
C30_AdminChangeLogged ==
    \A p \in Procs :
        AdminChange(p, {"updateCredits", "updateUserCredits"}) => AdminChangeLogged(p)

\* the change of the balance of its user that request p is about to write
IntendedChange(p) ==
    CASE procs[p].kind = "updateCredits" /\ procs[p].arg = "add" -> procs[p].required
      [] procs[p].kind = "updateCredits" /\ procs[p].arg = "subtract" -> 0 - procs[p].required
      [] procs[p].kind = "deductCredits" -> 0 - procs[p].required
      [] procs[p].kind = "webhook" -> SessionMeta(procs[p].ev.session).creditAmount
      [] OTHER -> 0

\* C31: every write of a balance by an admin add or subtract, by deductCredits
\* or by a credit grant moves the balance stored at that moment by the amount of
\* the operation, so that overlapping changes for one user all show in the
\* final balance; only the admin set writes an absolute value.
C31_NoLostUpdate ==
    [][\A p \in Procs, u \in Customers :
          (/\ procs'[p] # procs[p]
           /\ credits'[u] # credits[u]
           /\ procs[p].kind \in {"updateCredits", "deductCredits", "webhook"}
           /\ ~(procs[p].kind = "updateCredits" /\ procs[p].arg = "set"))
          => credits'[u] = credits[u] + IntendedChange(p)]_vars

\* C32: with the data store available, no delivery of a checkout-completed
\* event or of a paid renewal or plan-switch invoice event is answered with a
\* failure, and every such event, delivered until it is acknowledged, is
\* eventually acknowledged.
C32_PaidEventsAcknowledged ==
    /\ [](\A p \in Procs :
            (At(p, "webhook", "done") /\ procs[p].ev \in PaidEvents)
            => procs[p].result = "200")
    /\ \A e \in PaidEvents : (e \in events) ~> (e \notin events)

\* the running signed sum of the ledger entries of the user of entry i, up to
\* and including entry i
RunningSum(i) == SignedSum(SubSeq(creditLog, 1, i), creditLog[i].userId)

\* C33: every ledger entry that records a resulting balance records the
\* running signed sum of its user's entries up to and including it, in creation
\* order, also when debits and credit grants for the user overlap.
C33_SnapshotIsRunningSum ==
    \A i \in 1..Len(creditLog) :
        creditLog[i].balanceAfter # {} => creditLog[i].balanceAfter = {RunningSum(i)}

\* the journal has the failed entry handlePaymentFailed wrote for the invoice
FailedTxForInvoice(i) ==
    \E k \in 1..Len(transactions) :
        transactions[k].stripeInvoiceId = i /\ transactions[k].status = "failed"

\* C34: when the payment of a renewal invoice failed first, with the failed
\* transaction written for it, and the delivery of the later
\* invoice-payment-succeeded event for the same invoice has been acknowledged,
\* the plan's allotment has been granted exactly once for that invoice.
C34_GrantedAfterFailedPayment ==
    \A p \in Procs :
        (/\ At(p, "webhook", "done")
         /\ procs[p].result = "200"
         /\ procs[p].ev.type = "invoice.payment_succeeded"
         /\ procs[p].ev.billing_reason = "subscription_cycle"
         /\ procs[p].ev.amount_paid > 0
         /\ FailedTxForInvoice(procs[p].ev.invoice))
        => GrantsForInvoice(procs[p].ev.invoice) = 1

\* C35: the transaction a verification returns to the user who asked for it is
\* a transaction of that user.
C35_VerifyReturnsOwnTransaction ==
    \A p \in Procs :
        (At(p, "verify", "done") /\ procs[p].transaction # 0)
        => transactions[procs[p].transaction].userId = procs[p].user

\* the resumes that are public after the step and were not public before it
BecamePublic ==
    {r \in resumes' : r.visibility = "public" /\ ~r.isDeleted /\ r \notin resumes}

\* C36: a createResume or updateResume request makes a resume public only when
\* its caller is an admin or is subscribed at that moment.
C36_PublicOnlyForSubscribers ==
    [][\A p \in Procs :
          (/\ procs'[p] # procs[p]
           /\ procs'[p].kind \in {"createResume", "updateResume"}
           /\ BecamePublic # {})
          => MayPublish(procs'[p].user)]_vars

\* the completed journal entries of the user for the processor payment
CompletedTxForPayment(u, pi) ==
    LET Test(t) == t.userId = u /\ t.status = "completed" /\ t.stripePaymentIntentId = pi
    IN Count(transactions, Test)

\* C37: for every user the journal has at most one completed entry for each
\* processor payment, whatever the order of syncTransactionsFromStripe and the
\* handling of the payment's event.
C37_OneEntryPerPayment ==
    \A u \in Customers, c \in stripe.payments : CompletedTxForPayment(u, c.pi) <= 1

\* ---------------------------------------------- specification: plan switch invoice

SwitchEvents ==
    {e \in events : \/ e.type \in {"customer.subscription.updated",
                                   "invoice.payment_succeeded"}
                    \/ e.type = "checkout.session.completed"
                       /\ SessionMeta(e.session).type = "subscription"}

\* a subscriber switches plan while the deliveries of the switch (the proration
\* invoice and the subscription update) are handled in any order, overlapping the
\* request
NextSwitch ==
    \/ CustomerSubscribes("active")
    \/ \E p \in Procs :
          \/ \E u \in Customers : registerUser(p, u)
          \/ RegisterLog(p)
          \/ \E e \in SwitchEvents : handleWebhookOnce(p, e)
          \/ CheckoutSubRetrieve(p)
          \/ CheckoutSubUpsert(p)
          \/ CheckoutSubInc(p)
          \/ CheckoutSubLog(p)
          \/ CheckoutSubTx(p)
          \/ SubscriptionUpdatedFind(p)
          \/ SubscriptionUpdatedSave(p)
          \/ InvoiceFind(p)
          \/ InvoiceDuplicateCheck(p)
          \/ InvoiceInc(p)
          \/ InvoiceLog(p)
          \/ InvoiceTx(p)
          \/ \E u \in Customers, plan \in Plans : StartSwitchPlan(p, u, plan)
          \/ SwitchPlanFind(p)
          \/ SwitchPlanRetrieve(p)
          \/ SwitchPlanUpdate(p)
          \/ SwitchPlanSave(p)
          \/ Respond(p)

SpecSwitch == InitConcurrent /\ [][NextSwitch]_vars

\* the plan the processor's subscription is on
StripePlan == PlanOfInterval(stripe.sub.interval)

\* C38: the allotment granted for a plan-switch invoice is the allotment of the
\* new plan, in every interleaving of switchPlan's write of the local plan, the
\* subscription-updated event and the invoice event.
C38_SwitchGrantsNewPlan ==
    [][\A p \in Procs :
          (/\ At(p, "webhook", "ip_inc")
           /\ procs[p].ev.billing_reason = "subscription_update"
           /\ procs'[p].pc = "ip_log")
          => credits'[procs[p].doc.userId]
               = credits[procs[p].doc.userId] + creditLimitForPlan(StripePlan)]_vars

\* ------------------------------------ specification: events without a local record

\* a subscription is bought and its period ends, with the renewal charged or
\* refused, while the processor's events are delivered in any order, each until
\* it is acknowledged: the events of the renewal can be handled before the
\* checkout event has created the local record
NextNoRecord ==
    \/ CustomerSubscribes("active")
    \/ StripeRenews
    \/ StripeChargeFails
    \/ Tick
    \/ \E p \in Procs :
          \/ \E u \in Customers : registerUser(p, u)
          \/ RegisterLog(p)
          \/ Respond(p) /\ procs[p].kind # "webhook"
          \/ \E e \in events : handleWebhook(p, e)
          \/ CheckoutSubRetrieve(p)
          \/ CheckoutSubUpsert(p)
          \/ CheckoutSubInc(p)
          \/ CheckoutSubLog(p)
          \/ CheckoutSubTx(p)
          \/ SubscriptionUpdatedFind(p)
          \/ SubscriptionUpdatedSave(p)
          \/ InvoiceFind(p)
          \/ InvoiceDuplicateCheck(p)
          \/ InvoiceInc(p)
          \/ InvoiceLog(p)
          \/ InvoiceTx(p)
          \/ PaymentFailedFind(p)
          \/ PaymentFailedSave(p)
          \/ PaymentFailedTx(p)
          \/ RespondDelivery(p)

SpecNoRecord == Init /\ [][NextNoRecord]_vars

\* the handler of a subscription-updated, invoice-payment-succeeded or
\* invoice-payment-failed event looks for the local record and finds none
FindsNoRecord(p) ==
    /\ procs[p].kind = "webhook"
    /\ procs[p].pc \in {"su_find", "ip_find", "pf_find"}
    /\ procs'[p] # procs[p]
    /\ FindSubscription(procs[p].ev.sub.id) = NoDoc

\* the paid invoice's event is acknowledged and gone and nothing was granted for it
GrantLost(i) ==
    /\ \E c \in stripe.payments : c.pi = PaymentIntent("", i)
    /\ \A e \in events : e.invoice # i
    /\ \A p \in Procs : Busy(p) => procs[p].ev.invoice # i
    /\ GrantsForInvoice(i) = 0

\* C39: an event for a processor subscription with no local record changes no
\* local state and is answered 200; the processor does not deliver it again, and
\* the grant of its invoice is never applied later.
C39_NoRecordIsAcknowledged ==
    /\ [][\A p \in Procs :
             FindsNoRecord(p)
             => /\ UNCHANGED store
                /\ procs'[p].pc = "done"
                /\ procs'[p].result = "200"]_vars
    /\ [][\A p \in Procs :
             (At(p, "webhook", "done") /\ procs[p].result = "200" /\ procs'[p] # procs[p])
             => procs[p].ev \notin events']_vars
    /\ \A i \in 1..MaxInvoices : [](GrantLost(i) => [](GrantLost(i)))

\* a paid renewal invoice was acknowledged with no local record; the record
\* exists now and nothing was granted for the invoice
C39_Witness ==
    \E i \in 1..MaxInvoices :
        /\ GrantLost(i)
        /\ Payment("", i, "subscription_cycle") \in stripe.payments
        /\ TxForInvoice(i) = 0
        /\ FindSubscription("sub_1") # NoDoc

\* the request's paid action has failed, or is failing in this step
GenerationFails(p) ==
    /\ procs[p].kind = "generateJobPost"
    /\ procs'[p] # procs[p]
    /\ \/ procs[p].pc = "generate" /\ procs'[p].result = "500"
       \/ procs[p].pc = "done" /\ procs[p].result = "500"

\* C40: when the paid action fails after deductCredits has succeeded, the
\* deducted credits stay deducted: the failing step and the answer leave the
\* balance and the ledger as the deduction left them.
C40_FailedActionKeepsDebit ==
    [][\A p \in Procs : GenerationFails(p) => UNCHANGED store]_vars

\* a user's letter failed after the debit: the usage entry is in the ledger and
\* the balance is the one the debit left
C40_Witness ==
    \E p \in Procs :
        /\ At(p, "generateJobPost", "done")
        /\ procs[p].result = "500"
        /\ Role(procs[p].user) = "user"
        /\ \E i \in 1..Len(creditLog) :
              /\ creditLog[i].userId = procs[p].user
              /\ creditLog[i].type = "usage"
              /\ creditLog[i].action = "job_post_cover_letter"
              /\ creditLog[i].credits = settings.credits_per_action
              /\ creditLog[i].balanceAfter = {credits[procs[p].user]}

====
